---------------------------- MODULE Spec2Model ----------------------------
(***************************************************************************)
(* Model of defi-compare-backend:                                          *)
(*   - the tiered compareDataSources (exact key, then loose key)           *)
(*   - the simple compareDataSources (one Map per source)                  *)
(*   - CompareService.compareDefiData (createPositionMap, comparePositions,*)
(*     calculateSummary)                                                   *)
(*   - the OneKey client (chain tables, normalizer, per-network fetch)     *)
(*   - the Zerion clients and the retry loop of ZerionService              *)
(*   - the routes that fetch from the providers and compare                *)
(* Strings are sequences of one-character strings, so that toLowerCase,    *)
(* sort and join act on characters as they do in the code.  Values are     *)
(* integers; a percentage is the exact fraction <<numerator, denominator>>.*)
(***************************************************************************)
EXTENDS Integers, Sequences, FiniteSets

VARIABLES
  dataA,      \* AddressDefiData of source A: [totalValueUSD, positions]
  dataB,      \* AddressDefiData of source B
  pc,         \* "input" | "tiered" | "simple" | "service"; "fetch" while a
              \* route fetches,
              \* "none" while a chain is translated
  result,     \* the CompareResult returned, NoResult before the call
  request,    \* the entry point called, which credentials the environment
              \* has, and the number of the request
  hpc,        \* where the handler is: "start" | "zerion" | "onekey" | "nest" |
              \* "debugZerion" | "debugOneKey" | "compare" | "done"
  calls,      \* the provider network calls issued so far, in order
  zerion,     \* getAddressDefiData of the Worker's Zerion client
  onekey,     \* getAddressDefiData of the OneKey client
  nest,       \* ZerionService.getAddressDefiData of the NestJS application
  response,   \* what the caller has received: [status, success]
  translation \* two chain or network identifiers and what they translate to

vars == <<dataA, dataB, pc, result, request, hpc, calls, zerion, onekey, nest,
          response, translation>>

\* Total number of positions over both datasets.
MaxPositions == 4

(***************************************************************************)
(* Strings                                                                 *)
(***************************************************************************)
\* The alphabet of the model's strings: digits, letters and punctuation.
Digits == <<"0", "1", "2", "3", "4", "5", "6", "7", "8", "9">>
UpperCase ==
  <<"A", "B", "C", "D", "E", "F", "G", "H", "I", "J", "K", "L", "M",
    "N", "O", "P", "Q", "R", "S", "T", "U", "V", "W", "X", "Y", "Z">>
LowerCase ==
  <<"a", "b", "c", "d", "e", "f", "g", "h", "i", "j", "k", "l", "m",
    "n", "o", "p", "q", "r", "s", "t", "u", "v", "w", "x", "y", "z">>
Range(list) == {list[i] : i \in 1..Len(list)}
IndexIn(list, x) == CHOOSE i \in 1..Len(list) : list[i] = x
\* The other characters: the separators of keys and identifiers, and those
\* of the names and of the source text of the built-in functions.
Punctuation == <<" ", "(", ")", "+", "-", ":", "[", "]", "_", "{", "}">>
PunctuationCodes == <<32, 40, 41, 43, 45, 58, 91, 93, 95, 123, 125>>
Characters ==
  Range(Digits) \cup Range(UpperCase) \cup Range(LowerCase) \cup Range(Punctuation)

\* String.prototype.toLowerCase on one character.
LowerOf ==
  [c \in Characters |->
     IF c \in Range(UpperCase) THEN LowerCase[IndexIn(UpperCase, c)] ELSE c]
LowerChar(c) == LowerOf[c]

toLowerCase(s) == [i \in 1..Len(s) |-> LowerChar(s[i])]

\* UTF-16 code units of the alphabet, the order Array.prototype.sort uses.
CodeOf ==
  [c \in Characters |->
     CASE c \in Range(Punctuation) -> PunctuationCodes[IndexIn(Punctuation, c)]
       [] c \in Range(Digits) -> 47 + IndexIn(Digits, c)
       [] c \in Range(UpperCase) -> 64 + IndexIn(UpperCase, c)
       [] c \in Range(LowerCase) -> 96 + IndexIn(LowerCase, c)]
CharCode(c) == CodeOf[c]

(***************************************************************************)
(* Values that are not strings                                             *)
(***************************************************************************)
\* The value of a property that an object does not have.
undefined == <<"undefined">>

\* The error thrown by a call of a method the value does not have.
TypeError == <<"TypeError">>

\* A built-in function, given by its name.
NativeFunction(name) == <<"function">> \o name

\* Object.prototype, the object every object literal inherits from.
ObjectPrototype == <<"object">>

\* {}, what JSON.stringify writes for an object without enumerable
\* properties.
EmptyObject == <<"{}">>

\* A value that is neither '' nor undefined.
Truthy(value) == value # <<>> /\ value # undefined

\* typeof value === 'string'
IsString(value) == \A i \in 1..Len(value) : value[i] \in Characters

\* String(value), the conversion a template literal, a property key and the
\* default sort order apply.
ToString(value) ==
  IF IsString(value) THEN value
  ELSE IF value = undefined THEN <<"u", "n", "d", "e", "f", "i", "n", "e", "d">>
  ELSE IF value \in {ObjectPrototype, EmptyObject}
       THEN <<"[", "o", "b", "j", "e", "c", "t", " ", "O", "b", "j", "e", "c", "t", "]">>
  ELSE <<"f", "u", "n", "c", "t", "i", "o", "n", " ">> \o Tail(value)
         \o <<"(", ")", " ", "{", " ", "[", "n", "a", "t", "i", "v", "e", " ", "c", "o", "d", "e", "]", " ", "}">>

\* The members of Object.prototype, which table[key] finds under their names
\* in every table written as an object literal.
ObjectPrototypeMembers ==
  <<
     << <<"c", "o", "n", "s", "t", "r", "u", "c", "t", "o", "r">>,
        NativeFunction(<<"O", "b", "j", "e", "c", "t">>) >>,
     << <<"_", "_", "d", "e", "f", "i", "n", "e", "G", "e", "t", "t", "e", "r", "_", "_">>,
        NativeFunction(<<"_", "_", "d", "e", "f", "i", "n", "e", "G", "e", "t", "t", "e", "r", "_", "_">>) >>,
     << <<"_", "_", "d", "e", "f", "i", "n", "e", "S", "e", "t", "t", "e", "r", "_", "_">>,
        NativeFunction(<<"_", "_", "d", "e", "f", "i", "n", "e", "S", "e", "t", "t", "e", "r", "_", "_">>) >>,
     << <<"h", "a", "s", "O", "w", "n", "P", "r", "o", "p", "e", "r", "t", "y">>,
        NativeFunction(<<"h", "a", "s", "O", "w", "n", "P", "r", "o", "p", "e", "r", "t", "y">>) >>,
     << <<"_", "_", "l", "o", "o", "k", "u", "p", "G", "e", "t", "t", "e", "r", "_", "_">>,
        NativeFunction(<<"_", "_", "l", "o", "o", "k", "u", "p", "G", "e", "t", "t", "e", "r", "_", "_">>) >>,
     << <<"_", "_", "l", "o", "o", "k", "u", "p", "S", "e", "t", "t", "e", "r", "_", "_">>,
        NativeFunction(<<"_", "_", "l", "o", "o", "k", "u", "p", "S", "e", "t", "t", "e", "r", "_", "_">>) >>,
     << <<"i", "s", "P", "r", "o", "t", "o", "t", "y", "p", "e", "O", "f">>,
        NativeFunction(<<"i", "s", "P", "r", "o", "t", "o", "t", "y", "p", "e", "O", "f">>) >>,
     << <<"p", "r", "o", "p", "e", "r", "t", "y", "I", "s", "E", "n", "u", "m", "e", "r", "a", "b", "l", "e">>,
        NativeFunction(<<"p", "r", "o", "p", "e", "r", "t", "y", "I", "s", "E", "n", "u", "m", "e", "r", "a", "b", "l", "e">>) >>,
     << <<"t", "o", "S", "t", "r", "i", "n", "g">>,
        NativeFunction(<<"t", "o", "S", "t", "r", "i", "n", "g">>) >>,
     << <<"v", "a", "l", "u", "e", "O", "f">>,
        NativeFunction(<<"v", "a", "l", "u", "e", "O", "f">>) >>,
     << <<"t", "o", "L", "o", "c", "a", "l", "e", "S", "t", "r", "i", "n", "g">>,
        NativeFunction(<<"t", "o", "L", "o", "c", "a", "l", "e", "S", "t", "r", "i", "n", "g">>) >>,
     << <<"_", "_", "p", "r", "o", "t", "o", "_", "_">>, ObjectPrototype >> >>

\* s < t in the default sort order: by code unit, a proper prefix first.
RECURSIVE StringLess(_, _)
StringLess(s, t) ==
  IF t = <<>> THEN FALSE
  ELSE IF s = <<>> THEN TRUE
  ELSE IF CharCode(Head(s)) # CharCode(Head(t))
       THEN CharCode(Head(s)) < CharCode(Head(t))
  ELSE StringLess(Tail(s), Tail(t))

\* Insertion of x into a sorted list after every element not greater than x;
\* the elements are compared as strings.
RECURSIVE InsertString(_, _)
InsertString(x, sorted) ==
  IF sorted = <<>> THEN <<x>>
  ELSE IF StringLess(ToString(x), ToString(Head(sorted))) THEN <<x>> \o sorted
  ELSE <<Head(sorted)>> \o InsertString(x, Tail(sorted))

\* Array.prototype.sort() with no comparator.
RECURSIVE sortStrings(_)
sortStrings(list) ==
  IF list = <<>> THEN <<>>
  ELSE InsertString(list[Len(list)], sortStrings(SubSeq(list, 1, Len(list) - 1)))

\* Array.prototype.join(sep).
RECURSIVE join(_, _)
join(list, sep) ==
  IF list = <<>> THEN <<>>
  ELSE IF Len(list) = 1 THEN list[1]
  ELSE list[1] \o sep \o join(Tail(list), sep)

unknown == <<"u", "n", "k", "n", "o", "w", "n">>
lending == <<"l", "e", "n", "d", "i", "n", "g">>
staking == <<"s", "t", "a", "k", "i", "n", "g">>

Abs(n) == IF n < 0 THEN -n ELSE n

(***************************************************************************)
(* Positions and datasets                                                  *)
(***************************************************************************)
\* A Position: protocol (id, chain), type, tokens (the symbols of its
\* TokenBalance entries, in order) and totalValueUSD.
Pos(pid, chain, type, tokens, value) ==
  [protocol |-> [id |-> pid, chain |-> chain], type |-> type,
   tokens |-> tokens, totalValueUSD |-> value]

\* The positions a provider may report.  They share one protocol and chain
\* up to letter case, and differ in type, token list, token order and value:
\* a pair 100 / 101 differs by exactly 1%, a pair 100 / 102 by more, one
\* value is 0 and one is negative (a net debt).
SamplePositions ==
  { Pos(<<"a">>, <<"e">>, lending, << <<"u">> >>, 100),
    Pos(<<"A">>, <<"e">>, lending, << <<"U">> >>, 101),
    Pos(<<"a">>, <<"e">>, lending, << <<"u">>, <<"t">> >>, 102),
    Pos(<<"a">>, <<"e">>, lending, << <<"t">>, <<"u">> >>, 0),
    Pos(<<"a">>, <<"e">>, staking, << <<"u">> >>, -100) }

RECURSIVE SumValues(_)
SumValues(positions) ==
  IF positions = <<>> THEN 0
  ELSE Head(positions).totalValueUSD + SumValues(Tail(positions))

\* The dataset of a list of positions whose total is the sum of the
\* positions' values, as the OneKey client returns it.
AddressDefiData(positions) ==
  [totalValueUSD |-> SumValues(positions), positions |-> positions]

\* The totals the portfolio endpoint of Zerion may report.
PortfolioTotals == {0, 280}

\* The totalValueUSD a Zerion dataset with these positions may declare: the
\* sum of the positions' values (the client that recalculates the total), or
\* a total reported by the portfolio endpoint, which does not depend on the
\* positions (the client and the ZerionService that pass it on; 0 also
\* stands for a portfolio answer without total and, in ZerionService, for a
\* failed portfolio request).
ZerionTotals(positions) == {SumValues(positions)} \cup PortfolioTotals

NoResult == [summary |-> <<>>, positionDiffs |-> <<>>]

(***************************************************************************)
(* Tiered compareDataSources                                               *)
(***************************************************************************)
getPositionMatchKey(position) ==
  LET tokenSymbols ==
        join(sortStrings([i \in 1..Len(position.tokens) |->
                            toLowerCase(position.tokens[i])]), <<"+">>)
  IN toLowerCase(ToString(position.protocol.id) \o <<"-">>
                 \o ToString(position.protocol.chain) \o <<"-">>
                 \o ToString(position.type) \o <<"-">> \o tokenSymbols)

getLooseMatchKey(position) ==
  LET first == IF Len(position.tokens) >= 1
               THEN toLowerCase(position.tokens[1]) ELSE <<>>
      mainToken == IF first = <<>> THEN unknown ELSE first
  IN toLowerCase(ToString(position.protocol.id) \o <<"-">>
                 \o ToString(position.protocol.chain) \o <<"-">> \o mainToken)


MaxOf(S) == CHOOSE m \in S : \A n \in S : n <= m

\* Map<string, Position> filled by set(): a later position with the same
\* exact key replaces the earlier one.  Positions are named by their index
\* in the dataset's list (the identity of the object).
sourceByExactKey(positions) ==
  [k \in {getPositionMatchKey(positions[j]) : j \in 1..Len(positions)} |->
     MaxOf({j \in 1..Len(positions) : getPositionMatchKey(positions[j]) = k})]

\* The indexes (ascending, from j on) of the positions with loose key k.
RECURSIVE LooseIndexes(_, _, _)
LooseIndexes(positions, j, k) ==
  IF j > Len(positions) THEN <<>>
  ELSE (IF getLooseMatchKey(positions[j]) = k THEN <<j>> ELSE <<>>)
       \o LooseIndexes(positions, j + 1, k)

\* Map<string, Position[]>: the positions of one loose key, in list order.
sourceByLooseKey(positions) ==
  [k \in {getLooseMatchKey(positions[j]) : j \in 1..Len(positions)} |->
     LooseIndexes(positions, 1, k)]

\* The first candidate whose exact key is not in matchedBKeys, 0 if none.
RECURSIVE FirstUnmatched(_, _, _)
FirstUnmatched(candidates, positionsB, matchedBKeys) ==
  IF candidates = <<>> THEN 0
  ELSE IF getPositionMatchKey(positionsB[Head(candidates)]) \notin matchedBKeys
       THEN Head(candidates)
  ELSE FirstUnmatched(Tail(candidates), positionsB, matchedBKeys)

\* FindMatch that claims a loose candidate without looking at matchedBKeys.
FindMatchAnyCandidate(posA, positionsB, matchedBKeys) ==
  LET exactKey == getPositionMatchKey(posA)
      looseKey == getLooseMatchKey(posA)
      byExact == sourceByExactKey(positionsB)
      byLoose == sourceByLooseKey(positionsB)
  IN IF exactKey \in DOMAIN byExact THEN byExact[exactKey]
     ELSE IF looseKey \in DOMAIN byLoose THEN byLoose[looseKey][1]
     ELSE 0

\* The B position matched to posA (its index, 0 when none): by exact key
\* first, by loose key otherwise.
FindMatch(posA, positionsB, matchedBKeys) ==
  LET exactKey == getPositionMatchKey(posA)
      looseKey == getLooseMatchKey(posA)
      byExact == sourceByExactKey(positionsB)
      byLoose == sourceByLooseKey(positionsB)
  IN IF exactKey \in DOMAIN byExact THEN byExact[exactKey]
     ELSE IF looseKey \in DOMAIN byLoose
          THEN FirstUnmatched(byLoose[looseKey], positionsB, matchedBKeys)
     ELSE 0

Absent == [absent |-> TRUE]

\* A percentage as an exact fraction <<numerator, denominator>>.
Fraction(n, d) == <<n, d>>

\* The percentage taken relative to B's value instead of A's.
percentDiffOfBaseB(valueA, valueB) ==
  IF valueB > 0 THEN Fraction((valueB - valueA) * 100, valueB)
  ELSE IF valueA > 0 THEN Fraction(100, 1)
  ELSE Fraction(0, 1)

\* (valueDiff / A.value) * 100 when A.value > 0, else 100 or 0.
percentDiffOf(valueA, valueB) ==
  IF valueA > 0 THEN Fraction((valueB - valueA) * 100, valueA)
  ELSE IF valueB > 0 THEN Fraction(100, 1)
  ELSE Fraction(0, 1)

\* The threshold with >= in place of >.
exceedsThresholdInclusive(percentDiff) == Abs(percentDiff[1]) >= percentDiff[2]

\* Math.abs(percentDiff) > 1
exceedsThreshold(percentDiff) == Abs(percentDiff[1]) > percentDiff[2]

\* The removed entry with the value of A as its difference, sign kept.
removedDiffUnsigned(posA, i) ==
  [diffType |-> "removed", chain |-> posA.protocol.chain, type |-> posA.type,
   positionA |-> posA, positionB |-> Absent,
   valueDiffUSD |-> posA.totalValueUSD, valueDiffPercent |-> Fraction(-100, 1),
   idxA |-> i, idxB |-> 0]

removedDiff(posA, i) ==
  [diffType |-> "removed", chain |-> posA.protocol.chain, type |-> posA.type,
   positionA |-> posA, positionB |-> Absent,
   valueDiffUSD |-> -posA.totalValueUSD, valueDiffPercent |-> Fraction(-100, 1),
   idxA |-> i, idxB |-> 0]

addedDiff(posB, j) ==
  [diffType |-> "added", chain |-> posB.protocol.chain, type |-> posB.type,
   positionA |-> Absent, positionB |-> posB,
   valueDiffUSD |-> posB.totalValueUSD, valueDiffPercent |-> Fraction(100, 1),
   idxA |-> 0, idxB |-> j]

matchedDiff(posA, i, posB, j) ==
  LET valueDiff == posB.totalValueUSD - posA.totalValueUSD
      percentDiff == percentDiffOf(posA.totalValueUSD, posB.totalValueUSD)
  IN [diffType |-> IF exceedsThreshold(percentDiff) THEN "changed" ELSE "unchanged",
      chain |-> posA.protocol.chain, type |-> posA.type,
      positionA |-> posA, positionB |-> posB,
      valueDiffUSD |-> valueDiff, valueDiffPercent |-> percentDiff,
      idxA |-> i, idxB |-> j]

\* The loop over sourceAData.positions, from position i on: the diffs pushed
\* and the final matchedBKeys.
RECURSIVE loopA(_, _, _, _)
loopA(positionsA, positionsB, i, matchedBKeys) ==
  IF i > Len(positionsA) THEN [diffs |-> <<>>, matchedBKeys |-> matchedBKeys]
  ELSE LET posA == positionsA[i]
           j == FindMatch(posA, positionsB, matchedBKeys)
       IN IF j = 0
          THEN LET rest == loopA(positionsA, positionsB, i + 1, matchedBKeys)
               IN [rest EXCEPT !.diffs = <<removedDiff(posA, i)>> \o @]
          ELSE LET rest == loopA(positionsA, positionsB, i + 1,
                                 matchedBKeys \cup
                                   {getPositionMatchKey(positionsB[j])})
               IN [rest EXCEPT
                     !.diffs = <<matchedDiff(posA, i, positionsB[j], j)>> \o @]

\* The loop over sourceBData.positions: an added diff for every position
\* whose exact key was not matched.
RECURSIVE loopB(_, _, _)
loopB(positionsB, j, matchedBKeys) ==
  IF j > Len(positionsB) THEN <<>>
  ELSE (IF getPositionMatchKey(positionsB[j]) \notin matchedBKeys
        THEN <<addedDiff(positionsB[j], j)>> ELSE <<>>)
       \o loopB(positionsB, j + 1, matchedBKeys)

CountType(diffs, t) == Cardinality({k \in 1..Len(diffs) : diffs[k].diffType = t})

\* totalValueDiffUSD and totalValueDiffPercent of the two declared totals.
totalValueDiffPercentOf(totalA, totalB) ==
  IF totalA > 0 THEN Fraction((totalB - totalA) * 100, totalA)
  ELSE IF totalB > 0 THEN Fraction(100, 1)
  ELSE Fraction(0, 1)

tieredTypeOrder == [removed |-> 0, added |-> 1, changed |-> 2, unchanged |-> 3]

\* The comparator with the sizes compared the other way round.
diffComparatorAscending(a, b, typeOrder) ==
  IF typeOrder[a.diffType] # typeOrder[b.diffType]
  THEN typeOrder[a.diffType] - typeOrder[b.diffType]
  ELSE Abs(a.valueDiffUSD) - Abs(b.valueDiffUSD)

\* The comparator of positionDiffs.sort: by type order, then by descending
\* |valueDiffUSD|.
diffComparator(a, b, typeOrder) ==
  IF typeOrder[a.diffType] # typeOrder[b.diffType]
  THEN typeOrder[a.diffType] - typeOrder[b.diffType]
  ELSE Abs(b.valueDiffUSD) - Abs(a.valueDiffUSD)

\* x placed before the first element it must precede.
RECURSIVE InsertDiff(_, _, _)
InsertDiff(x, sorted, typeOrder) ==
  IF sorted = <<>> THEN <<x>>
  ELSE IF diffComparator(x, Head(sorted), typeOrder) < 0 THEN <<x>> \o sorted
  ELSE <<Head(sorted)>> \o InsertDiff(x, Tail(sorted), typeOrder)

\* Array.prototype.sort(comparator): a stable sort.
RECURSIVE sortDiffs(_, _)
sortDiffs(diffs, typeOrder) ==
  IF diffs = <<>> THEN <<>>
  ELSE InsertDiff(diffs[Len(diffs)],
                  sortDiffs(SubSeq(diffs, 1, Len(diffs) - 1), typeOrder),
                  typeOrder)

\* The diffs in push order: the A loop's, then the B loop's.
tieredDiffs(positionsA, positionsB) ==
  LET a == loopA(positionsA, positionsB, 1, {})
  IN a.diffs \o loopB(positionsB, 1, a.matchedBKeys)

\* The counters incremented next to each push.
tieredSummary(sourceAData, sourceBData, pushed) ==
  [totalValueDiffUSD |-> sourceBData.totalValueUSD - sourceAData.totalValueUSD,
   totalValueDiffPercent |->
     totalValueDiffPercentOf(sourceAData.totalValueUSD, sourceBData.totalValueUSD),
   positionsOnlyInA |-> CountType(pushed, "removed"),
   positionsOnlyInB |-> CountType(pushed, "added"),
   commonPositions |-> CountType(pushed, "unchanged"),
   changedPositions |-> CountType(pushed, "changed")]

compareDataSources(sourceAData, sourceBData) ==
  LET pushed == tieredDiffs(sourceAData.positions, sourceBData.positions)
  IN [summary |-> tieredSummary(sourceAData, sourceBData, pushed),
      positionDiffs |-> sortDiffs(pushed, tieredTypeOrder)]

(***************************************************************************)
(* CompareService.compareDefiData                                          *)
(***************************************************************************)
\* `${position.protocol.id}:${position.protocol.chain}:${position.type}`
positionMapKey(position) ==
  ToString(position.protocol.id) \o <<":">> \o ToString(position.protocol.chain)
    \o <<":">> \o ToString(position.type)

\* The index of the entry of a map (a list of entries in insertion order)
\* under key, 0 if it has none.
RECURSIVE EntryIndex(_, _, _)
EntryIndex(map, key, k) ==
  IF k > Len(map) THEN 0
  ELSE IF map[k].key = key THEN k
  ELSE EntryIndex(map, key, k + 1)

\* { ...position } without the copy of the token array: the entry is a new
\* object whose tokens are the input position's own array.
newEntryShallow(key, position, idx) ==
  [key |-> key, position |-> position, first |-> idx,
   sharesObject |-> FALSE, sharesTokens |-> TRUE]

\* map.set(key, { ...position, tokens: [...position.tokens] }): the entry is
\* a new object with a new token array.  first is the index of the input
\* position it was copied from; sharesObject and sharesTokens say whether the
\* entry's object, or its token array, is the input position's own.
newEntry(key, position, idx) ==
  [key |-> key, position |-> position, first |-> idx,
   sharesObject |-> FALSE, sharesTokens |-> FALSE]

\* mapInsert that adds the value but leaves the tokens of the entry alone.
mapInsertValueOnly(map, position, idx) ==
  LET key == positionMapKey(position)
      k == EntryIndex(map, key, 1)
  IN IF k # 0
     THEN [map EXCEPT ![k].position.totalValueUSD = @ + position.totalValueUSD]
     ELSE Append(map, newEntry(key, position, idx))

\* One iteration of createPositionMap's loop: a position under a key the map
\* already has is merged into the entry's copy (value added, tokens appended);
\* otherwise a copy of it is inserted.
mapInsert(map, position, idx) ==
  LET key == positionMapKey(position)
      k == EntryIndex(map, key, 1)
  IN IF k # 0
     THEN [map EXCEPT
             ![k].position.totalValueUSD = @ + position.totalValueUSD,
             ![k].position.tokens = @ \o position.tokens]
     ELSE Append(map, newEntry(key, position, idx))

RECURSIVE createPositionMapFrom(_, _, _)
createPositionMapFrom(positions, idx, map) ==
  IF idx > Len(positions) THEN map
  ELSE createPositionMapFrom(positions, idx + 1,
                             mapInsert(map, positions[idx], idx))

createPositionMap(positions) == createPositionMapFrom(positions, 1, <<>>)

\* The input positions as they are once createPositionMap has returned: the
\* writes to an entry (totalValueUSD +=, tokens.push) reach the input position
\* it was made from as far as the entry shares its object or token array.
positionsAfterCreateMap(positions, map) ==
  [i \in 1..Len(positions) |->
     IF \E k \in 1..Len(map) : map[k].first = i
     THEN LET entry == map[CHOOSE k \in 1..Len(map) : map[k].first = i]
          IN IF entry.sharesObject THEN entry.position
             ELSE IF entry.sharesTokens
                  THEN [positions[i] EXCEPT !.tokens = entry.position.tokens]
                  ELSE positions[i]
     ELSE positions[i]]

\* A dataset as it is once comparePositions has built its map of it.
dataAfterCompare(dataSet) ==
  [dataSet EXCEPT !.positions =
     positionsAfterCreateMap(dataSet.positions, createPositionMap(dataSet.positions))]

\* new Set([...mapA.keys(), ...mapB.keys()]) in iteration order.
allKeysOf(mapA, mapB) ==
  [k \in 1..Len(mapA) |-> mapA[k].key]
    \o SelectSeq([k \in 1..Len(mapB) |-> mapB[k].key],
                 LAMBDA key : EntryIndex(mapA, key, 1) = 0)

\* Math.abs(valueDiffPercent) > 0.01
exceedsServiceThreshold(percentDiff) ==
  Abs(percentDiff[1]) * 100 > percentDiff[2]

\* The diff of a key present in both maps; pushed only when changed.
serviceMatchedDiff(posA, i, posB, j) ==
  LET valueDiff == posB.totalValueUSD - posA.totalValueUSD
      valueDiffPercent == percentDiffOf(posA.totalValueUSD, posB.totalValueUSD)
  IN [diffType |-> IF exceedsServiceThreshold(valueDiffPercent)
                   THEN "changed" ELSE "unchanged",
      chain |-> posA.protocol.chain, type |-> posA.type,
      positionA |-> posA, positionB |-> posB,
      valueDiffUSD |-> valueDiff, valueDiffPercent |-> valueDiffPercent,
      idxA |-> i, idxB |-> j]

\* The body of the loop over allKeys, for one key: the diffs it pushes.
serviceDiffsOfKey(mapA, mapB, key) ==
  LET ka == EntryIndex(mapA, key, 1)
      kb == EntryIndex(mapB, key, 1)
  IN IF ka # 0 /\ kb # 0
     THEN LET d == serviceMatchedDiff(mapA[ka].position, mapA[ka].first,
                                      mapB[kb].position, mapB[kb].first)
          IN IF d.diffType = "changed" THEN <<d>> ELSE <<>>
     ELSE IF ka # 0 THEN <<removedDiff(mapA[ka].position, mapA[ka].first)>>
     ELSE IF kb # 0 THEN <<addedDiff(mapB[kb].position, mapB[kb].first)>>
     ELSE <<>>

RECURSIVE serviceLoop(_, _, _)
serviceLoop(mapA, mapB, keys) ==
  IF keys = <<>> THEN <<>>
  ELSE serviceDiffsOfKey(mapA, mapB, Head(keys))
       \o serviceLoop(mapA, mapB, Tail(keys))

serviceTypeOrder == [added |-> 1, removed |-> 2, changed |-> 3, unchanged |-> 4]

comparePositions(positionsA, positionsB) ==
  LET mapA == createPositionMap(positionsA)
      mapB == createPositionMap(positionsB)
  IN sortDiffs(serviceLoop(mapA, mapB, allKeysOf(mapA, mapB)), serviceTypeOrder)

calculateSummary(dataSetA, dataSetB, diffs) ==
  LET positionsOnlyInA == CountType(diffs, "removed")
  IN [totalValueDiffUSD |-> dataSetB.totalValueUSD - dataSetA.totalValueUSD,
      totalValueDiffPercent |->
        totalValueDiffPercentOf(dataSetA.totalValueUSD, dataSetB.totalValueUSD),
      positionsOnlyInA |-> positionsOnlyInA,
      positionsOnlyInB |-> CountType(diffs, "added"),
      commonPositions |-> Len(dataSetA.positions) - positionsOnlyInA,
      changedPositions |-> CountType(diffs, "changed")]

compareDefiData(dataSetA, dataSetB) ==
  LET positionDiffs == comparePositions(dataSetA.positions, dataSetB.positions)
  IN [summary |-> calculateSummary(dataSetA, dataSetB, positionDiffs),
      positionDiffs |-> positionDiffs]

(***************************************************************************)
(* The simple compareDataSources: one Map per source, keyed by protocol,   *)
(* chain and first token symbol; no loose fallback and no sort             *)
(***************************************************************************)
\* `${position.protocol.id}-${position.protocol.chain}-${tokenSymbol}`
\* .toLowerCase(), tokenSymbol being tokens[0]?.token.symbol || 'unknown'
getPositionKey(position) ==
  LET first == IF Len(position.tokens) >= 1 THEN position.tokens[1] ELSE undefined
      tokenSymbol == IF Truthy(first) THEN first ELSE unknown
  IN toLowerCase(ToString(position.protocol.id) \o <<"-">>
                 \o ToString(position.protocol.chain) \o <<"-">> \o tokenSymbol)

\* positions.forEach(p => map.set(getPositionKey(p), p)) from position idx on.
\* The Map is the list of its entries in insertion order: set under a key the
\* Map has replaces the value and leaves the entry where it is.  idx is the
\* index of the position in the input list.
RECURSIVE simplePositionMap(_, _, _)
simplePositionMap(positions, idx, map) ==
  IF idx > Len(positions) THEN map
  ELSE LET key == getPositionKey(positions[idx])
           k == EntryIndex(map, key, 1)
           entry == [key |-> key, position |-> positions[idx], idx |-> idx]
       IN simplePositionMap(positions, idx + 1,
                            IF k # 0 THEN [map EXCEPT ![k] = entry]
                            ELSE Append(map, entry))

\* for (const [key, posA] of sourceAPositionMap): removed when B's Map has
\* nothing under the key, else changed or unchanged.
simpleLoopA(mapA, mapB) ==
  [k \in 1..Len(mapA) |->
     LET j == EntryIndex(mapB, mapA[k].key, 1)
     IN IF j = 0
        THEN removedDiff(mapA[k].position, mapA[k].idx)
        ELSE matchedDiff(mapA[k].position, mapA[k].idx,
                         mapB[j].position, mapB[j].idx)]

\* for (const [key, posB] of sourceBPositionMap): added when A's Map has not
\* the key.
simpleLoopB(mapA, mapB) ==
  LET onlyB == SelectSeq(mapB, LAMBDA entry : EntryIndex(mapA, entry.key, 1) = 0)
  IN [k \in 1..Len(onlyB) |-> addedDiff(onlyB[k].position, onlyB[k].idx)]

\* The simple compareDataSources: the diffs in push order, and the counters
\* incremented next to each push.
compareDataSourcesSimple(sourceAData, sourceBData) ==
  LET sourceAPositionMap == simplePositionMap(sourceAData.positions, 1, <<>>)
      sourceBPositionMap == simplePositionMap(sourceBData.positions, 1, <<>>)
      positionDiffs == simpleLoopA(sourceAPositionMap, sourceBPositionMap)
                         \o simpleLoopB(sourceAPositionMap, sourceBPositionMap)
  IN [summary |->
        [totalValueDiffUSD |-> sourceBData.totalValueUSD - sourceAData.totalValueUSD,
         totalValueDiffPercent |->
           totalValueDiffPercentOf(sourceAData.totalValueUSD,
                                   sourceBData.totalValueUSD),
         positionsOnlyInA |-> CountType(positionDiffs, "removed"),
         positionsOnlyInB |-> CountType(positionDiffs, "added"),
         commonPositions |-> CountType(positionDiffs, "unchanged"),
         changedPositions |-> CountType(positionDiffs, "changed")],
      positionDiffs |-> positionDiffs]

(***************************************************************************)
(* The OneKey provider client: chain tables, normalizer, per-network fetch *)
(***************************************************************************)
\* The object has an own property under the key.
HasOwn(table, key) == \E i \in 1..Len(table) : table[i][1] = key

\* table[key] of an object literal given by its entries <<key, value>>: the
\* value of the last entry under String(key); without such an entry the
\* member of Object.prototype of that name, undefined when there is none.
Lookup(table, key) ==
  LET name == ToString(key)
  IN IF HasOwn(table, name)
     THEN table[MaxOf({i \in 1..Len(table) : table[i][1] = name})][2]
     ELSE IF HasOwn(ObjectPrototypeMembers, name)
     THEN ObjectPrototypeMembers[
            MaxOf({i \in 1..Len(ObjectPrototypeMembers) :
                     ObjectPrototypeMembers[i][1] = name})][2]
     ELSE undefined

\* Boolean(table[key]): the test of table[key] || ... and of if (table[key]).
HasKey(table, key) == Truthy(Lookup(table, key))

\* NETWORK_ID_TO_CHAIN: the entries <<networkId, chain>> of the object literal,
\* in the order written.
NETWORK_ID_TO_CHAIN ==
  << << <<"e", "v", "m", "-", "-", "1">>,
        <<"e", "t", "h", "e", "r", "e", "u", "m">> >>,
     << <<"e", "v", "m", "-", "-", "1", "0">>,
        <<"o", "p", "t", "i", "m", "i", "s", "m">> >>,
     << <<"e", "v", "m", "-", "-", "1", "0", "0">>,
        <<"x", "d", "a", "i">> >>,
     << <<"e", "v", "m", "-", "-", "1", "1", "0", "1">>,
        <<"p", "o", "l", "y", "g", "o", "n", "-", "z", "k", "e", "v", "m">> >>,
     << <<"e", "v", "m", "-", "-", "1", "3", "0">>,
        <<"u", "n", "i", "c", "h", "a", "i", "n">> >>,
     << <<"e", "v", "m", "-", "-", "1", "3", "1", "3", "1", "6", "1", "5", "5", "4">>,
        <<"a", "u", "r", "o", "r", "a">> >>,
     << <<"e", "v", "m", "-", "-", "1", "3", "7">>,
        <<"p", "o", "l", "y", "g", "o", "n">> >>,
     << <<"e", "v", "m", "-", "-", "1", "4", "3">>,
        <<"m", "o", "n", "a", "d">> >>,
     << <<"e", "v", "m", "-", "-", "1", "4", "6">>,
        <<"s", "o", "n", "i", "c">> >>,
     << <<"e", "v", "m", "-", "-", "1", "9", "6">>,
        <<"o", "k", "b", "c", "h", "a", "i", "n">> >>,
     << <<"e", "v", "m", "-", "-", "2", "5", "0">>,
        <<"f", "a", "n", "t", "o", "m">> >>,
     << <<"e", "v", "m", "-", "-", "3", "2", "4">>,
        <<"z", "k", "s", "y", "n", "c", "-", "e", "r", "a">> >>,
     << <<"e", "v", "m", "-", "-", "4", "2", "1", "6", "1">>,
        <<"a", "r", "b", "i", "t", "r", "u", "m">> >>,
     << <<"e", "v", "m", "-", "-", "4", "2", "2", "2", "0">>,
        <<"c", "e", "l", "o">> >>,
     << <<"e", "v", "m", "-", "-", "4", "3", "1", "1", "4">>,
        <<"a", "v", "a", "l", "a", "n", "c", "h", "e">> >>,
     << <<"e", "v", "m", "-", "-", "4", "8", "0">>,
        <<"w", "o", "r", "l", "d">> >>,
     << <<"e", "v", "m", "-", "-", "5", "0">>,
        <<"x", "i", "n", "f", "i", "n", "-", "x", "d", "c">> >>,
     << <<"e", "v", "m", "-", "-", "5", "0", "0", "0">>,
        <<"m", "a", "n", "t", "l", "e">> >>,
     << <<"e", "v", "m", "-", "-", "5", "3", "4", "3", "5", "2">>,
        <<"s", "c", "r", "o", "l", "l">> >>,
     << <<"e", "v", "m", "-", "-", "5", "6">>,
        <<"b", "i", "n", "a", "n", "c", "e", "-", "s", "m", "a", "r", "t", "-", "c", "h", "a", "i", "n">> >>,
     << <<"e", "v", "m", "-", "-", "5", "9", "1", "4", "4">>,
        <<"l", "i", "n", "e", "a">> >>,
     << <<"e", "v", "m", "-", "-", "7", "7", "7", "7", "7", "7", "7">>,
        <<"z", "o", "r", "a">> >>,
     << <<"e", "v", "m", "-", "-", "8", "0", "0", "9", "4">>,
        <<"b", "e", "r", "a", "c", "h", "a", "i", "n">> >>,
     << <<"e", "v", "m", "-", "-", "8", "1", "4", "5", "7">>,
        <<"b", "l", "a", "s", "t">> >>,
     << <<"e", "v", "m", "-", "-", "8", "4", "5", "3">>,
        <<"b", "a", "s", "e">> >>,
     << <<"e", "v", "m", "-", "-", "9", "7", "4", "5">>,
        <<"p", "l", "a", "s", "m", "a">> >>,
     << <<"e", "v", "m", "-", "-", "9", "9", "9">>,
        <<"h", "y", "p", "e", "r", "e", "v", "m">> >> >>

\* Object.fromEntries over the entries of NETWORK_ID_TO_CHAIN, unswapped.
CHAIN_TO_NETWORK_ID_Unswapped == NETWORK_ID_TO_CHAIN

\* Object.fromEntries(Object.entries(NETWORK_ID_TO_CHAIN).map(([k, v]) => [v, k]))
CHAIN_TO_NETWORK_ID ==
  [i \in 1..Len(NETWORK_ID_TO_CHAIN) |->
     << NETWORK_ID_TO_CHAIN[i][2], NETWORK_ID_TO_CHAIN[i][1] >>]

\* ONEKEY_CHAIN_TO_STANDARD: the entries <<OneKey chain name, standard name>>.
ONEKEY_CHAIN_TO_STANDARD ==
  << << <<"e", "t", "h">>,
        <<"e", "t", "h", "e", "r", "e", "u", "m">> >>,
     << <<"b", "s", "c">>,
        <<"b", "i", "n", "a", "n", "c", "e", "-", "s", "m", "a", "r", "t", "-", "c", "h", "a", "i", "n">> >>,
     << <<"a", "r", "b">>,
        <<"a", "r", "b", "i", "t", "r", "u", "m">> >>,
     << <<"o", "p">>,
        <<"o", "p", "t", "i", "m", "i", "s", "m">> >>,
     << <<"m", "a", "t", "i", "c">>,
        <<"p", "o", "l", "y", "g", "o", "n">> >>,
     << <<"a", "v", "a", "x">>,
        <<"a", "v", "a", "l", "a", "n", "c", "h", "e">> >>,
     << <<"f", "t", "m">>,
        <<"f", "a", "n", "t", "o", "m">> >>,
     << <<"g", "n", "o", "s", "i", "s">>,
        <<"x", "d", "a", "i">> >>,
     << <<"c", "e", "l", "o">>,
        <<"c", "e", "l", "o">> >>,
     << <<"a", "r", "b", "i", "t", "r", "u", "m">>,
        <<"a", "r", "b", "i", "t", "r", "u", "m">> >>,
     << <<"o", "p", "t", "i", "m", "i", "s", "m">>,
        <<"o", "p", "t", "i", "m", "i", "s", "m">> >>,
     << <<"p", "o", "l", "y", "g", "o", "n">>,
        <<"p", "o", "l", "y", "g", "o", "n">> >>,
     << <<"a", "v", "a", "l", "a", "n", "c", "h", "e">>,
        <<"a", "v", "a", "l", "a", "n", "c", "h", "e">> >>,
     << <<"b", "a", "s", "e">>,
        <<"b", "a", "s", "e">> >>,
     << <<"b", "l", "a", "s", "t">>,
        <<"b", "l", "a", "s", "t">> >>,
     << <<"l", "i", "n", "e", "a">>,
        <<"l", "i", "n", "e", "a">> >>,
     << <<"s", "c", "r", "o", "l", "l">>,
        <<"s", "c", "r", "o", "l", "l">> >>,
     << <<"z", "k", "s", "y", "n", "c", "-", "e", "r", "a">>,
        <<"z", "k", "s", "y", "n", "c", "-", "e", "r", "a">> >>,
     << <<"m", "a", "n", "t", "l", "e">>,
        <<"m", "a", "n", "t", "l", "e">> >>,
     << <<"z", "o", "r", "a">>,
        <<"z", "o", "r", "a">> >>,
     << <<"b", "e", "r", "a", "c", "h", "a", "i", "n">>,
        <<"b", "e", "r", "a", "c", "h", "a", "i", "n">> >>,
     << <<"f", "a", "n", "t", "o", "m">>,
        <<"f", "a", "n", "t", "o", "m">> >>,
     << <<"x", "d", "a", "i">>,
        <<"x", "d", "a", "i">> >>,
     << <<"a", "u", "r", "o", "r", "a">>,
        <<"a", "u", "r", "o", "r", "a">> >>,
     << <<"p", "o", "l", "y", "g", "o", "n", "-", "z", "k", "e", "v", "m">>,
        <<"p", "o", "l", "y", "g", "o", "n", "-", "z", "k", "e", "v", "m">> >>,
     << <<"e", "t", "h", "e", "r", "e", "u", "m">>,
        <<"e", "t", "h", "e", "r", "e", "u", "m">> >>,
     << <<"b", "i", "n", "a", "n", "c", "e", "-", "s", "m", "a", "r", "t", "-", "c", "h", "a", "i", "n">>,
        <<"b", "i", "n", "a", "n", "c", "e", "-", "s", "m", "a", "r", "t", "-", "c", "h", "a", "i", "n">> >> >>

\* ONEKEY_CHAIN_TO_STANDARD[chain.toLowerCase()] || chain.toLowerCase()
normalizeChainName(chain) ==
  LET lower == toLowerCase(chain)
      standard == Lookup(ONEKEY_CHAIN_TO_STANDARD, lower)
  IN IF Truthy(standard) THEN standard ELSE lower

\* PRIMARY_NETWORKS: the network ids queried when no chain is given.
PRIMARY_NETWORKS ==
  << <<"e", "v", "m", "-", "-", "1">>,
     <<"e", "v", "m", "-", "-", "4", "2", "1", "6", "1">>,
     <<"e", "v", "m", "-", "-", "1", "0">>,
     <<"e", "v", "m", "-", "-", "8", "4", "5", "3">>,
     <<"e", "v", "m", "-", "-", "1", "3", "7">>,
     <<"e", "v", "m", "-", "-", "5", "6">>,
     <<"e", "v", "m", "-", "-", "4", "3", "1", "1", "4">>,
     <<"e", "v", "m", "-", "-", "3", "2", "4">>,
     <<"e", "v", "m", "-", "-", "5", "9", "1", "4", "4">>,
     <<"e", "v", "m", "-", "-", "5", "3", "4", "3", "5", "2">>,
     <<"e", "v", "m", "-", "-", "5", "0", "0", "0">>,
     <<"e", "v", "m", "-", "-", "8", "1", "4", "5", "7">>,
     <<"e", "v", "m", "-", "-", "2", "5", "0">>,
     <<"e", "v", "m", "-", "-", "1", "0", "0">>,
     <<"e", "v", "m", "-", "-", "4", "2", "2", "2", "0">>,
     <<"e", "v", "m", "-", "-", "8", "0", "0", "9", "4">> >>

\* categoryMap of mapCategory: the entries <<OneKey category, PositionType>>.
categoryMap ==
  << << <<"l", "e", "n", "d", "i", "n", "g">>,
        <<"l", "e", "n", "d", "i", "n", "g">> >>,
     << <<"b", "o", "r", "r", "o", "w", "i", "n", "g">>,
        <<"b", "o", "r", "r", "o", "w", "i", "n", "g">> >>,
     << <<"l", "i", "q", "u", "i", "d", "i", "t", "y">>,
        <<"l", "i", "q", "u", "i", "d", "i", "t", "y">> >>,
     << <<"s", "t", "a", "k", "i", "n", "g">>,
        <<"s", "t", "a", "k", "i", "n", "g">> >>,
     << <<"f", "a", "r", "m", "i", "n", "g">>,
        <<"f", "a", "r", "m", "i", "n", "g">> >>,
     << <<"w", "a", "l", "l", "e", "t">>,
        <<"w", "a", "l", "l", "e", "t">> >>,
     << <<"d", "e", "p", "o", "s", "i", "t">>,
        <<"l", "e", "n", "d", "i", "n", "g">> >>,
     << <<"b", "o", "r", "r", "o", "w">>,
        <<"b", "o", "r", "r", "o", "w", "i", "n", "g">> >>,
     << <<"s", "t", "a", "k", "e">>,
        <<"s", "t", "a", "k", "i", "n", "g">> >>,
     << <<"l", "p">>,
        <<"l", "i", "q", "u", "i", "d", "i", "t", "y">> >>,
     << <<"r", "e", "w", "a", "r", "d">>,
        <<"s", "t", "a", "k", "i", "n", "g">> >> >>

other == <<"o", "t", "h", "e", "r">>

\* categoryMap[category.toLowerCase()] || 'other'
mapCategory(category) ==
  LET mapped == Lookup(categoryMap, toLowerCase(category))
  IN IF Truthy(mapped) THEN mapped ELSE other

\* String(n) for a natural number.
RECURSIVE NumToString(_)
NumToString(n) ==
  IF n < 10 THEN << Digits[n + 1] >>
  ELSE NumToString(n \div 10) \o << Digits[(n % 10) + 1] >>

UNKNOWN == <<"U", "N", "K", "N", "O", "W", "N">>

\* A raw OneKey asset: its symbol and USD value; hasValue tells whether the
\* asset has a value at all.
Asset(symbol, value) == [symbol |-> symbol, hasValue |-> TRUE, value |-> value]
AssetWithoutValue(symbol) == [symbol |-> symbol, hasValue |-> FALSE, value |-> 0]

\* transformAsset: the symbol of the token of an asset.
transformAsset(asset) == IF asset.symbol # <<>> THEN asset.symbol ELSE UNKNOWN

\* (list || []).reduce((sum, a) => sum + (a.value || 0), 0)
RECURSIVE SumAssetValues(_)
SumAssetValues(assets) ==
  IF assets = <<>> THEN 0
  ELSE (IF Head(assets).hasValue THEN Head(assets).value ELSE 0)
         + SumAssetValues(Tail(assets))

\* The net worth with the debts added instead of subtracted.
netWorthOfDebtsAdded(pos) ==
  SumAssetValues(pos.assets) + SumAssetValues(pos.rewards)
    + SumAssetValues(pos.debts)

\* netWorth = totalAssetValue + totalRewardValue - totalDebtValue
netWorthOf(pos) ==
  SumAssetValues(pos.assets) + SumAssetValues(pos.rewards)
    - SumAssetValues(pos.debts)

\* pos.chain || NETWORK_ID_TO_CHAIN[pos.networkId] || pos.networkId
rawChainOf(pos) ==
  IF Truthy(pos.chain) THEN pos.chain
  ELSE IF Truthy(Lookup(NETWORK_ID_TO_CHAIN, pos.networkId))
       THEN Lookup(NETWORK_ID_TO_CHAIN, pos.networkId)
       ELSE pos.networkId

\* The PositionType enumeration.
PositionTypes ==
  {lending, <<"b", "o", "r", "r", "o", "w", "i", "n", "g">>,
   <<"l", "i", "q", "u", "i", "d", "i", "t", "y">>, staking,
   <<"f", "a", "r", "m", "i", "n", "g">>, <<"w", "a", "l", "l", "e", "t">>, other}

\* transformPosition throws a TypeError: toLowerCase is called on a value
\* that is no string, by normalizeChainName when the position has neither
\* chain nor networkId or when NETWORK_ID_TO_CHAIN[pos.networkId] is a member
\* of Object.prototype, and by mapCategory when the position has no category.
transformPositionThrows(pos) ==
  ~IsString(rawChainOf(pos)) \/ ~IsString(pos.category)

\* transformPosition(pos, index) when it does not throw: a raw OneKey
\* position as a Position.  An empty list stands for an absent assets,
\* rewards or debts, an empty string for an absent groupId; index counts from
\* 0 over the flattened results.
transformPosition(pos, index) ==
  LET rawChain == rawChainOf(pos)
      chain == normalizeChainName(rawChain)
      tokens == [k \in 1..Len(pos.assets) |-> transformAsset(pos.assets[k])]
                  \o [k \in 1..Len(pos.rewards) |-> transformAsset(pos.rewards[k])]
      netWorth == netWorthOf(pos)
  IN [id |-> ToString(pos.protocol) \o <<"-">> \o ToString(chain) \o <<"-">>
               \o (IF Truthy(pos.groupId) THEN ToString(pos.groupId)
                   ELSE NumToString(index)),
      protocol |-> [id |-> IF Truthy(pos.protocol) THEN pos.protocol ELSE unknown,
                    chain |-> chain],
      type |-> mapCategory(pos.category),
      tokens |-> IF Len(tokens) > 0 THEN tokens ELSE << UNKNOWN >>,
      totalValueUSD |-> netWorth]

\* What one request to the provider ends in: a transport error, or a response
\* with a status and a body; the body parses as JSON or not, may carry an API
\* code, and holds the raw positions of the network.  kind "none" stands for
\* a request that has not been answered.
Outcome(kind, status, parses, hasCode, code, positions) ==
  [kind |-> kind, status |-> status, parses |-> parses, hasCode |-> hasCode,
   code |-> code, positions |-> positions]

Unanswered == Outcome("none", 0, FALSE, FALSE, 0, <<>>)
TransportError == Outcome("error", 0, FALSE, FALSE, 0, <<>>)
ErrorStatus(status) == Outcome("response", status, FALSE, FALSE, 0, <<>>)
Unparseable == Outcome("response", 200, FALSE, FALSE, 0, <<>>)
ApiError == Outcome("response", 200, TRUE, TRUE, 1, <<>>)
Success(positions) == Outcome("response", 200, TRUE, TRUE, 0, positions)
SuccessNoCode(positions) == Outcome("response", 200, TRUE, FALSE, 0, positions)
Accepted == Outcome("response", 202, TRUE, FALSE, 0, <<>>)
\* A 202 answer whose body holds positions.
AcceptedWith(positions) == Outcome("response", 202, TRUE, FALSE, 0, positions)

\* response.ok
ResponseOk(outcome) == outcome.status >= 200 /\ outcome.status <= 299

\* fetchNetworkPositions whose outer catch is missing: a transport error is
\* thrown to the caller.
fetchNetworkPositionsUncaught(outcome) ==
  IF outcome.kind = "error" THEN [threw |-> TRUE, positions |-> <<>>]
  ELSE IF ~ResponseOk(outcome) THEN [threw |-> FALSE, positions |-> <<>>]
  ELSE IF ~outcome.parses THEN [threw |-> FALSE, positions |-> <<>>]
  ELSE IF outcome.hasCode /\ outcome.code # 0
       THEN [threw |-> FALSE, positions |-> <<>>]
  ELSE [threw |-> FALSE, positions |-> outcome.positions]

\* fetchNetworkPositions, given what its one request ended in: whether it
\* threw, and the raw positions it returned.
fetchNetworkPositions(outcome) ==
  IF outcome.kind = "error" THEN [threw |-> FALSE, positions |-> <<>>]
  ELSE IF ~ResponseOk(outcome) THEN [threw |-> FALSE, positions |-> <<>>]
  ELSE IF ~outcome.parses THEN [threw |-> FALSE, positions |-> <<>>]
  ELSE IF outcome.hasCode /\ outcome.code # 0
       THEN [threw |-> FALSE, positions |-> <<>>]
  ELSE [threw |-> FALSE, positions |-> outcome.positions]

\* The chains of a list of positions in order of first occurrence, without
\* the empty chain and 'unknown'.
RECURSIVE chainSet(_, _)
chainSet(positions, chains) ==
  IF positions = <<>> THEN chains
  ELSE LET chain == Head(positions).protocol.chain
       IN chainSet(Tail(positions),
                   IF Truthy(chain) /\ chain # unknown
                      /\ \A k \in 1..Len(chains) : chains[k] # chain
                   THEN Append(chains, chain)
                   ELSE chains)

\* extractChains: Array.from(chains).sort()
extractChains(positions) == sortStrings(chainSet(positions, <<>>))

\* getNetworkIdsFromChains without the fallback to the primary networks.
getNetworkIdsFromChainsNoFallback(chains) ==
  LET known == SelectSeq(chains, LAMBDA chain : HasKey(CHAIN_TO_NETWORK_ID, chain))
  IN [k \in 1..Len(known) |-> Lookup(CHAIN_TO_NETWORK_ID, known[k])]

\* getNetworkIdsFromChains: the network id of every chain that has one, in
\* the order of the chains; the primary networks when no chain has one.
getNetworkIdsFromChains(chains) ==
  LET known == SelectSeq(chains, LAMBDA chain : HasKey(CHAIN_TO_NETWORK_ID, chain))
      networkIds == [k \in 1..Len(known) |-> Lookup(CHAIN_TO_NETWORK_ID, known[k])]
  IN IF Len(networkIds) > 0 THEN networkIds ELSE PRIMARY_NETWORKS

\* networksToQuery of getAddressDefiData, targetChains being given or not.
networksToQueryOf(scoped, targetChains) ==
  IF scoped /\ Len(targetChains) > 0
  THEN getNetworkIdsFromChains(targetChains)
  ELSE PRIMARY_NETWORKS

\* results.flat()
RECURSIVE flat(_)
flat(results) ==
  IF results = <<>> THEN <<>> ELSE Head(results) \o flat(Tail(results))

\* The dataset a provider client returns for a list of positions.
ProviderData(positions) ==
  [totalValueUSD |-> SumValues(positions), positions |-> positions,
   chains |-> extractChains(positions)]

\* getAddressDefiData rejects: Promise.all rejects when one of the
\* per-network calls throws, and allOnekeyPositions.map throws when
\* transformPosition does.
onekeyRejects(responses) ==
  LET allOnekeyPositions ==
        flat([k \in 1..Len(responses) |-> fetchNetworkPositions(responses[k]).positions])
  IN \/ \E k \in 1..Len(responses) : fetchNetworkPositions(responses[k]).threw
     \/ \E k \in 1..Len(allOnekeyPositions) :
          transformPositionThrows(allOnekeyPositions[k])

\* What the caller of a rejected getAddressDefiData gets in place of a
\* dataset.
Rejected == [rejected |-> TRUE]

\* The dataset assembled from the answers of the networks taken in reverse.
onekeyDataOfReversed(responses) ==
  LET allOnekeyPositions ==
        flat([k \in 1..Len(responses) |->
                fetchNetworkPositions(responses[Len(responses) + 1 - k]).positions])
  IN IF onekeyRejects(responses) THEN Rejected
     ELSE ProviderData([k \in 1..Len(allOnekeyPositions) |->
                          transformPosition(allOnekeyPositions[k], k - 1)])

\* What getAddressDefiData makes of the answers of the networks: the dataset
\* of the transformed positions, in the order of the networks queried.
onekeyDataOf(responses) ==
  LET allOnekeyPositions ==
        flat([k \in 1..Len(responses) |-> fetchNetworkPositions(responses[k]).positions])
  IN IF onekeyRejects(responses) THEN Rejected
     ELSE ProviderData([k \in 1..Len(allOnekeyPositions) |->
                          transformPosition(allOnekeyPositions[k], k - 1)])

(***************************************************************************)
(* Requests: the routes of the Worker                                      *)
(***************************************************************************)
evm1 == <<"e", "v", "m", "-", "-", "1">>
evm10 == <<"e", "v", "m", "-", "-", "1", "0">>
evm42161 == <<"e", "v", "m", "-", "-", "4", "2", "1", "6", "1">>
ethereum == <<"e", "t", "h", "e", "r", "e", "u", "m">>
arbitrum == <<"a", "r", "b", "i", "t", "r", "u", "m">>
solana == <<"s", "o", "l", "a", "n", "a">>
\* The name of a member of Object.prototype, as a chain name.
constructor == <<"c", "o", "n", "s", "t", "r", "u", "c", "t", "o", "r">>

\* Raw positions OneKey may hold for the address: on Ethereum a deposit under
\* the chain name 'eth' and a position without chain name, with a reward, a
\* debt and a groupId; on Arbitrum a position of an unlisted category without
\* assets.
RawDeposit ==
  [networkId |-> evm1, protocol |-> <<"a">>, chain |-> <<"e", "t", "h">>,
   category |-> <<"d", "e", "p", "o", "s", "i", "t">>,
   assets |-> << Asset(<<"u">>, 100) >>, rewards |-> <<>>, debts |-> <<>>,
   groupId |-> <<>>]
RawStake ==
  [networkId |-> evm1, protocol |-> <<"a">>, chain |-> <<>>,
   category |-> <<"S", "t", "a", "k", "e">>,
   assets |-> << Asset(<<"u">>, 150) >>, rewards |-> << Asset(<<"t">>, 2) >>,
   debts |-> << Asset(<<"t">>, 50) >>, groupId |-> <<"g">>]
\* A debt of the same protocol on Ethereum, in the group of RawStake, with
\* an asset that has no value.
RawBorrow ==
  [networkId |-> evm1, protocol |-> <<"a">>, chain |-> <<>>,
   category |-> <<"b", "o", "r", "r", "o", "w">>,
   assets |-> << AssetWithoutValue(<<"t">>) >>, rewards |-> <<>>,
   debts |-> << Asset(<<"u">>, 30) >>,
   groupId |-> <<"g">>]
RawVault ==
  [networkId |-> evm42161, protocol |-> <<"a">>, chain |-> <<"A", "R", "B">>,
   category |-> <<"v", "a", "u", "l", "t">>,
   assets |-> <<>>, rewards |-> <<>>, debts |-> <<>>, groupId |-> <<>>]
\* On Arbitrum a position whose chain name and category are, up to letter
\* case, the name of a member of Object.prototype.
RawInherited ==
  [networkId |-> evm42161, protocol |-> <<"a">>,
   chain |-> <<"C", "o", "n", "s", "t", "r", "u", "c", "t", "o", "r">>,
   category |-> constructor,
   assets |-> << Asset(<<"u">>, 1) >>, rewards |-> <<>>, debts |-> <<>>,
   groupId |-> <<>>]
\* On Arbitrum a position that has no category, and one that has neither
\* chain nor networkId.
RawNoCategory ==
  [networkId |-> evm42161, protocol |-> <<"a">>, chain |-> undefined,
   category |-> undefined,
   assets |-> << Asset(<<"u">>, 10) >>, rewards |-> <<>>, debts |-> <<>>,
   groupId |-> <<>>]
RawNoChain ==
  [networkId |-> undefined, protocol |-> <<"a">>, chain |-> undefined,
   category |-> <<>>,
   assets |-> <<>>, rewards |-> <<>>, debts |-> <<>>, groupId |-> <<>>]

\* The networks whose answers vary; every other network answers with an
\* empty success.
SampledNetworks == {evm1, evm42161}

\* What a request for the positions of a network may end in.
Outcomes(networkId) ==
  IF networkId = evm1
  THEN {TransportError, ErrorStatus(500), ErrorStatus(429), Unparseable,
        ApiError, AcceptedWith(<< RawDeposit >>), Success(<<>>),
        SuccessNoCode(<< RawDeposit >>),
        Success(<< RawDeposit, RawStake >>), Success(<< RawStake, RawBorrow >>)}
  ELSE IF networkId = evm42161
  THEN {TransportError, ErrorStatus(500), Success(<<>>), Success(<< RawVault >>),
        Success(<< RawInherited >>), Success(<< RawNoCategory >>),
        Success(<< RawNoChain >>)}
  ELSE {Success(<<>>)}

\* The positions Zerion may report: on two chains OneKey has a network for,
\* on one it has none for, on no known chain, and on a chain named as a
\* member of Object.prototype is.
ZerionPositions ==
  { Pos(<<"a">>, ethereum, lending, << <<"u">> >>, 100),
    Pos(<<"a">>, arbitrum, other, << <<"u">> >>, 150),
    Pos(<<"s">>, solana, staking, << <<"u">> >>, 30),
    Pos(<<"w">>, unknown, other, << <<"u">> >>, 5),
    Pos(<<"c">>, constructor, lending, << <<"u">> >>, 7) }

\* Number of positions of a Zerion dataset.
MaxZerionPositions == 2

ZerionLists ==
  UNION {[1..n -> ZerionPositions] : n \in 0..MaxZerionPositions}

\* A provider network call: of Zerion's portfolio or positions endpoint, or
\* of OneKey's positions endpoint for a network.
Call(provider, endpoint, networkId) ==
  [provider |-> provider, endpoint |-> endpoint, networkId |-> networkId]

NoResponse == [status |-> 0, success |-> FALSE]
\* ApiResponse.error(message): the controller returns it, with status 200.
ErrorResponse == [status |-> 200, success |-> FALSE]
\* c.json({ success: false, message }, 500)
FailureResponse == [status |-> 500, success |-> FALSE]
\* c.json({ success: true, data })
SuccessResponse == [status |-> 200, success |-> TRUE]

ZerionIdle ==
  [pc |-> "idle", portfolio |-> "idle", positions |-> "idle",
   data |-> ProviderData(<<>>)]
\* completed lists the sampled networks in the order their requests were
\* answered.
OneKeyIdle ==
  [pc |-> "idle", scoped |-> FALSE, scope |-> <<>>, networks |-> <<>>,
   responses |-> <<>>, completed |-> <<>>, data |-> ProviderData(<<>>)]

(***************************************************************************)
(* ZerionService of the NestJS application: fetchPositions and its retries *)
(***************************************************************************)
MAX_RETRIES == 3

\* while (retries <= MAX_RETRIES)
retriesLeftInclusive(retries) == retries <= MAX_RETRIES

\* while (retries < MAX_RETRIES)
retriesLeft(retries) == retries < MAX_RETRIES

\* The loop body of fetchPositions whose catch retries after every error.
fetchPositionsStepRetryAll(outcome) ==
  IF outcome.kind = "response" /\ ResponseOk(outcome)
  THEN IF outcome.status = 202
       THEN [next |-> "sleep", ms |-> 3000, positions |-> <<>>]
       ELSE [next |-> "return", ms |-> 0,
             positions |-> IF outcome.parses THEN outcome.positions ELSE <<>>]
  ELSE [next |-> "sleep", ms |-> 5000, positions |-> <<>>]

\* The loop body of fetchPositions, given what the attempt ended in: sleep and
\* go round again, or return a list.  A response outside 2xx and a transport
\* error reach the catch.
fetchPositionsStep(outcome) ==
  IF outcome.kind = "response" /\ ResponseOk(outcome)
  THEN IF outcome.status = 202
       THEN [next |-> "sleep", ms |-> 3000, positions |-> <<>>]
       ELSE [next |-> "return", ms |-> 0,
             positions |-> IF outcome.parses THEN outcome.positions ELSE <<>>]
  ELSE IF outcome.kind = "response" /\ outcome.status = 429
       THEN [next |-> "sleep", ms |-> 5000, positions |-> <<>>]
       ELSE [next |-> "return", ms |-> 0, positions |-> <<>>]

\* [...new Set(positions.map((p) => p.protocol.chain))]
RECURSIVE uniqueChains(_, _)
uniqueChains(positions, chains) ==
  IF positions = <<>> THEN chains
  ELSE LET chain == Head(positions).protocol.chain
       IN uniqueChains(Tail(positions),
                       IF \A k \in 1..Len(chains) : chains[k] # chain
                       THEN Append(chains, chain)
                       ELSE chains)

\* An item null of the data of a positions answer.
NullItem == [null |-> TRUE]

\* transformPositions throws a TypeError: the callback of rawPositions.map
\* reads position.attributes of an item that is null.
transformPositionsThrows(rawPositions) ==
  \E k \in 1..Len(rawPositions) : "null" \in DOMAIN rawPositions[k]

\* The dataset ZerionService.getAddressDefiData returns: the portfolio total
\* and the positions the returned items are transformed to.
zerionServiceData(totalValue, positions) ==
  [totalValueUSD |-> totalValue, positions |-> positions,
   chains |-> uniqueChains(positions, <<>>)]

\* What an attempt of ZerionService.fetchPositions may end in: the data of a
\* 200 answer is a list of position items, or a list with an item null;
\* without an API key the provider refuses the request.
AttemptOutcomes(hasKey) ==
  IF hasKey
  THEN {Accepted, ErrorStatus(429), ErrorStatus(500), TransportError,
        Success(<< NullItem >>)}
         \cup {Success(list) : list \in ZerionLists}
  ELSE {ErrorStatus(401), TransportError}

\* What an attempt of fetchPositions may end in while
\* CompareService.compareAddresses fetches two addresses at once.
AddressPairOutcomes(hasKey) ==
  IF hasKey
  THEN {Accepted, TransportError, Success(<< NullItem >>)}
         \cup {Success(<< p >>) : p \in {q \in ZerionPositions : q.protocol.chain = ethereum
                                                            \/ q.protocol.chain = solana}}
  ELSE {ErrorStatus(401), TransportError}

\* A call of ZerionService.getAddressDefiData that has not started.
ZerionCallIdle ==
  [pc |-> "idle", portfolio |-> "idle", totalValue |-> 0, fetch |-> "idle",
   retries |-> 0, ms |-> 0, answers |-> <<>>, waits |-> <<>>, raw |-> <<>>,
   data |-> zerionServiceData(0, <<>>)]

\* ZerionService: its call of getAddressDefiData and, in second, the call for
\* addressB that CompareService.compareAddresses runs beside it.
ZerionServiceIdle ==
  [pc |-> "idle", portfolio |-> "idle", totalValue |-> 0, fetch |-> "idle",
   retries |-> 0, ms |-> 0, answers |-> <<>>, waits |-> <<>>, raw |-> <<>>,
   data |-> zerionServiceData(0, <<>>), second |-> ZerionCallIdle]

\* No identifier is being translated.
NoTranslation ==
  [step |-> "none", a |-> <<>>, b |-> <<>>, ofA |-> <<>>, ofB |-> <<>>]

\* No route is being served: the reconciliation is called directly.
NoRequest ==
  /\ request = [entry |-> "none", ZERION_API_KEY |-> FALSE,
                ONEKEY_AUTH_TOKEN |-> FALSE, number |-> 0, param |-> <<>>,
                addressA |-> FALSE, addressB |-> FALSE]
  /\ hpc = "none"
  /\ calls = <<>>
  /\ zerion = ZerionIdle
  /\ onekey = OneKeyIdle
  /\ nest = ZerionServiceIdle
  /\ response = NoResponse

(***************************************************************************)
(* The specification: two datasets arrive, one implementation compares.    *)
(***************************************************************************)
PositionLists(n) == [1..n -> SamplePositions]

\* Source A is a Zerion dataset.  Source B is the dataset of OneKey or of a
\* placeholder source, whose total is the sum of its positions' values, or
\* the Zerion dataset of a second address (compareAddresses).
Init ==
  /\ \E n \in 0..MaxPositions : \E m \in 0..(MaxPositions - n) :
       \E a \in PositionLists(n), b \in PositionLists(m) :
         \E totalA \in ZerionTotals(a), totalB \in ZerionTotals(b) :
           /\ dataA = [totalValueUSD |-> totalA, positions |-> a]
           /\ dataB = [totalValueUSD |-> totalB, positions |-> b]
  /\ pc = "input"
  /\ result = NoResult
  /\ NoRequest
  /\ translation = NoTranslation

CompareTiered ==
  /\ pc = "input"
  /\ result' = compareDataSources(dataA, dataB)
  /\ pc' = "tiered"
  /\ UNCHANGED <<dataA, dataB>>
  /\ UNCHANGED <<request, hpc, calls, zerion, onekey, nest, response>>
  /\ UNCHANGED translation

CompareService ==
  /\ pc = "input"
  /\ result' = compareDefiData(dataA, dataB)
  /\ dataA' = dataAfterCompare(dataA)
  /\ dataB' = dataAfterCompare(dataB)
  /\ pc' = "service"
  /\ UNCHANGED <<request, hpc, calls, zerion, onekey, nest, response>>
  /\ UNCHANGED translation

\* The simple compareDataSources is called on the two datasets.
CompareSimple ==
  /\ pc = "input"
  /\ result' = compareDataSourcesSimple(dataA, dataB)
  /\ pc' = "simple"
  /\ UNCHANGED <<dataA, dataB>>
  /\ UNCHANGED <<request, hpc, calls, zerion, onekey, nest, response>>
  /\ UNCHANGED translation

Next == CompareTiered \/ CompareSimple \/ CompareService

Spec == Init /\ [][Next]_vars

\* The datasets of the worked example: one protocol on one chain, with the
\* values 1000, 1010 and 1100 and a second position type.
protocolA == <<"p", "r", "o", "t", "o", "c", "o", "l", "A">>
eth == <<"e", "t", "h">>

ScenarioPositions ==
  { Pos(protocolA, eth, lending, << <<"u">> >>, 1000),
    Pos(protocolA, eth, lending, << <<"u">> >>, 1010),
    Pos(protocolA, eth, lending, << <<"u">> >>, 1100),
    Pos(protocolA, eth, staking, << <<"u">> >>, 1000) }

ScenarioLists(n) == [1..n -> ScenarioPositions]

ScenarioInit ==
  /\ \E n \in 0..MaxPositions : \E m \in 0..(MaxPositions - n) :
       \E a \in ScenarioLists(n), b \in ScenarioLists(m) :
         /\ dataA = AddressDefiData(a)
         /\ dataB = AddressDefiData(b)
  /\ pc = "input"
  /\ result = NoResult
  /\ NoRequest
  /\ translation = NoTranslation

ScenarioSpec == ScenarioInit /\ [][Next]_vars

\* Positions whose protocol id, chain or token symbol holds one of the
\* characters the exact key is assembled with ('-' as in aave-v3 or
\* binance-smart-chain, '+'), beside positions that differ in letter case and
\* in token order only, and positions of another type or token list.
KeyPositions ==
  { Pos(<<"a">>, <<"e">>, lending, << <<"u">> >>, 100),
    Pos(<<"A">>, <<"E">>, lending, << <<"U">> >>, 100),
    Pos(<<"a">>, <<"e">>, staking, << <<"u">> >>, 100),
    Pos(<<"a">>, <<"e">>, lending, << <<"t">> >>, 100),
    Pos(<<"a">>, <<"e">>, lending, << <<"u">>, <<"t">> >>, 100),
    Pos(<<"a">>, <<"e">>, lending, << <<"T">>, <<"u">> >>, 100),
    Pos(<<"a">>, <<"e">>, lending, << <<"u">>, <<"u">> >>, 100),
    Pos(<<"a">>, <<"e">>, lending, << <<"t", "+", "u">> >>, 100),
    Pos(<<"a", "-", "v">>, <<"e">>, lending, << <<"u">> >>, 100),
    Pos(<<"a">>, <<"v", "-", "e">>, lending, << <<"u">> >>, 100),
    Pos(<<"a", "-", "v">>, <<"b", "-", "c">>, lending, << <<"u">> >>, 100),
    Pos(<<"b">>, <<"e">>, lending, << <<"u">> >>, 100) }

\* One position on each side.
KeyInit ==
  /\ \E p \in KeyPositions, q \in KeyPositions :
       /\ dataA = AddressDefiData(<< p >>)
       /\ dataB = AddressDefiData(<< q >>)
  /\ pc = "input"
  /\ result = NoResult
  /\ NoRequest
  /\ translation = NoTranslation

KeySpec == KeyInit /\ [][Next]_vars

(***************************************************************************)
(* The specification of a request: an entry point is called with or without *)
(* its credentials, issues its provider calls and answers the caller.       *)
(***************************************************************************)
\* The routes of the Worker: GET /defi/zerion/:address; GET
\* /defi/onekey/:address and /compare/sources/:address, with the OneKey
\* client or with its placeholder; GET /debug/zerion/raw/:address and
\* /debug/onekey/raw/:address/:networkId.  The NestJS application: GET
\* address/:address, address/:address/source/:source, compare and
\* compare/sources/:address of DefiController, and getRawPositions of
\* ZerionService.
Entries ==
  {"zerion", "onekey", "compare", "onekeyPlaceholder", "comparePlaceholder",
   "debugZerion", "debugOneKey",
   "nest", "nestSource", "nestCompare", "nestSources", "nestRaw"}

\* Values of :source.
Sources ==
  { <<"Z", "e", "r", "i", "o", "n">>,
    <<"p", "l", "a", "c", "e", "h", "o", "l", "d", "e", "r">>,
    <<"o", "n", "e", "k", "e", "y">> }

\* Values of :networkId.
DebugNetworks == {evm1, evm10}

\* The parameter of the entry point besides the address.
ParamsOf(entry) ==
  IF entry = "nestSource" THEN Sources
  ELSE IF entry = "debugOneKey" THEN DebugNetworks
  ELSE { <<>> }

\* Number of requests a caller sends to the entry point, one after the other.
MaxRequests == 2

\* addressA and addressB tell whether the query of GET compare has them.
FetchInit ==
  /\ request \in [entry : Entries, ZERION_API_KEY : BOOLEAN,
                  ONEKEY_AUTH_TOKEN : BOOLEAN, number : {1},
                  param : Sources \cup DebugNetworks \cup { <<>> },
                  addressA : BOOLEAN, addressB : BOOLEAN]
  /\ request.param \in ParamsOf(request.entry)
  /\ request.entry # "nestCompare" => ~request.addressA /\ ~request.addressB
  /\ hpc = "start"
  /\ calls = <<>>
  /\ zerion = ZerionIdle
  /\ onekey = OneKeyIdle
  /\ nest = ZerionServiceIdle
  /\ response = NoResponse
  /\ dataA = AddressDefiData(<<>>)
  /\ dataB = AddressDefiData(<<>>)
  /\ pc = "fetch"
  /\ result = NoResult
  /\ translation = NoTranslation

\* zerionService.getAddressDefiData: Promise.all starts fetchPortfolio and
\* fetchPositions, one request each.
StartZerion ==
  /\ zerion' = [ZerionIdle EXCEPT !.pc = "pending", !.portfolio = "pending",
                                  !.positions = "pending"]
  /\ calls' = calls \o << Call("zerion", "portfolio", <<>>),
                          Call("zerion", "positions", <<>>) >>

\* The networkId of the body JSON.stringify({ networkId, accountAddress })
\* writes: a property whose value is a function is left out, and
\* Object.prototype, which has no enumerable property, is written as {}.
bodyNetworkId(networkId) ==
  IF IsString(networkId) THEN networkId
  ELSE IF networkId = ObjectPrototype THEN EmptyObject
  ELSE undefined

\* onekeyService.getAddressDefiData: one fetchNetworkPositions per network to
\* query, all started before the first answer.
StartOneKey(scoped, targetChains) ==
  LET networksToQuery == networksToQueryOf(scoped, targetChains)
  IN /\ onekey' = [pc |-> "waiting", scoped |-> scoped, scope |-> targetChains,
                   networks |-> networksToQuery,
                   responses |-> [k \in 1..Len(networksToQuery) |-> Unanswered],
                   completed |-> <<>>, data |-> ProviderData(<<>>)]
     /\ calls' = calls \o [k \in 1..Len(networksToQuery) |->
                             Call("onekey", "positions",
                                  bodyNetworkId(networksToQuery[k]))]

\* GET /defi/zerion/:address
HandleZerion ==
  /\ hpc = "start"
  /\ request.entry = "zerion"
  /\ IF ~request.ZERION_API_KEY
     THEN /\ response' = FailureResponse
          /\ hpc' = "done"
          /\ UNCHANGED <<calls, zerion>>
     ELSE /\ StartZerion
          /\ hpc' = "zerion"
          /\ UNCHANGED response
  /\ UNCHANGED <<request, onekey, nest, dataA, dataB, pc, result>>
  /\ UNCHANGED translation

\* GET /defi/onekey/:address
HandleOneKey ==
  /\ hpc = "start"
  /\ request.entry = "onekey"
  /\ IF ~request.ONEKEY_AUTH_TOKEN
     THEN /\ response' = FailureResponse
          /\ hpc' = "done"
          /\ UNCHANGED <<calls, onekey>>
     ELSE /\ StartOneKey(FALSE, <<>>)
          /\ hpc' = "onekey"
          /\ UNCHANGED response
  /\ UNCHANGED <<request, zerion, nest, dataA, dataB, pc, result>>
  /\ UNCHANGED translation

\* GET /compare/sources/:address that starts both fetches at once.
HandleCompareParallel ==
  /\ hpc = "start"
  /\ request.entry = "compare"
  /\ IF ~request.ZERION_API_KEY \/ ~request.ONEKEY_AUTH_TOKEN
     THEN /\ response' = FailureResponse
          /\ hpc' = "done"
          /\ UNCHANGED <<calls, zerion, onekey>>
     ELSE /\ zerion' = [ZerionIdle EXCEPT !.pc = "pending", !.portfolio = "pending",
                                          !.positions = "pending"]
          /\ onekey' = [OneKeyIdle EXCEPT
                          !.pc = "waiting", !.networks = PRIMARY_NETWORKS,
                          !.responses = [k \in 1..Len(PRIMARY_NETWORKS) |-> Unanswered]]
          /\ calls' = calls \o << Call("zerion", "portfolio", <<>>),
                                  Call("zerion", "positions", <<>>) >>
                        \o [k \in 1..Len(PRIMARY_NETWORKS) |->
                              Call("onekey", "positions", PRIMARY_NETWORKS[k])]
          /\ hpc' = "zerion"
          /\ UNCHANGED response
  /\ UNCHANGED <<request, nest, dataA, dataB, pc, result>>
  /\ UNCHANGED translation

\* GET /compare/sources/:address: both credentials are checked, then the
\* Zerion fetch is started and awaited.
HandleCompare ==
  /\ hpc = "start"
  /\ request.entry = "compare"
  /\ IF ~request.ZERION_API_KEY \/ ~request.ONEKEY_AUTH_TOKEN
     THEN /\ response' = FailureResponse
          /\ hpc' = "done"
          /\ UNCHANGED <<calls, zerion, onekey>>
     ELSE /\ StartZerion
          /\ hpc' = "zerion"
          /\ UNCHANGED <<response, onekey>>
  /\ UNCHANGED <<request, nest, dataA, dataB, pc, result>>
  /\ UNCHANGED translation

\* GET /defi/onekey/:address with the placeholder client, which returns an
\* empty dataset: no credential is read and no request is sent.
HandleOneKeyPlaceholder ==
  /\ hpc = "start"
  /\ request.entry = "onekeyPlaceholder"
  /\ response' = SuccessResponse
  /\ hpc' = "done"
  /\ UNCHANGED <<request, calls, zerion, onekey, nest, dataA, dataB, pc, result>>
  /\ UNCHANGED translation

\* GET /compare/sources/:address with the placeholder client: the Zerion key
\* is checked, then Promise.all starts the Zerion fetch beside the
\* placeholder, which sends nothing.
HandleComparePlaceholder ==
  /\ hpc = "start"
  /\ request.entry = "comparePlaceholder"
  /\ IF ~request.ZERION_API_KEY
     THEN /\ response' = FailureResponse
          /\ hpc' = "done"
          /\ UNCHANGED <<calls, zerion>>
     ELSE /\ StartZerion
          /\ hpc' = "zerion"
          /\ UNCHANGED response
  /\ UNCHANGED <<request, onekey, nest, dataA, dataB, pc, result>>
  /\ UNCHANGED translation

\* GET /debug/zerion/raw/:address: getRawPositions sends one positions
\* request.
HandleDebugZerion ==
  /\ hpc = "start"
  /\ request.entry = "debugZerion"
  /\ IF ~request.ZERION_API_KEY
     THEN /\ response' = FailureResponse
          /\ hpc' = "done"
          /\ UNCHANGED <<calls, zerion>>
     ELSE /\ zerion' = [ZerionIdle EXCEPT !.positions = "pending"]
          /\ calls' = Append(calls, Call("zerion", "positions", <<>>))
          /\ hpc' = "debugZerion"
          /\ UNCHANGED response
  /\ UNCHANGED <<request, onekey, nest, dataA, dataB, pc, result>>
  /\ UNCHANGED translation

\* What the request of a debug route to Zerion may end in.
DebugOutcomes ==
  {TransportError, ErrorStatus(500), Unparseable, Accepted, Success(<<>>)}

\* The request of getRawPositions is answered: a status outside 2xx throws,
\* as response.json() does on a body that is no JSON, and the handler's
\* catch answers 500; otherwise the handler answers with the body.
DebugZerionResponds ==
  /\ hpc = "debugZerion"
  /\ \E outcome \in DebugOutcomes :
       IF outcome.kind = "response" /\ ResponseOk(outcome) /\ outcome.parses
       THEN /\ zerion' = [zerion EXCEPT !.positions = "ok"]
            /\ response' = SuccessResponse
       ELSE /\ zerion' = [zerion EXCEPT !.positions = "failed"]
            /\ response' = FailureResponse
  /\ hpc' = "done"
  /\ UNCHANGED <<request, calls, onekey, nest, dataA, dataB, pc, result>>
  /\ UNCHANGED translation

\* GET /debug/onekey/raw/:address/:networkId: the handler itself sends one
\* request for the network.
HandleDebugOneKey ==
  /\ hpc = "start"
  /\ request.entry = "debugOneKey"
  /\ IF ~request.ONEKEY_AUTH_TOKEN
     THEN /\ response' = FailureResponse
          /\ hpc' = "done"
          /\ UNCHANGED calls
     ELSE /\ calls' = Append(calls, Call("onekey", "positions",
                                         bodyNetworkId(request.param)))
          /\ hpc' = "debugOneKey"
          /\ UNCHANGED response
  /\ UNCHANGED <<request, zerion, onekey, nest, dataA, dataB, pc, result>>
  /\ UNCHANGED translation

\* The request of the debug route is answered: whatever the status, the
\* handler answers 200, with success: true if JSON.parse takes the body and
\* success: false if not; a transport error reaches the outer catch.
DebugOneKeyResponds ==
  /\ hpc = "debugOneKey"
  /\ \E outcome \in Outcomes(request.param) :
       response' = IF outcome.kind = "error" THEN FailureResponse
                   ELSE [status |-> 200, success |-> outcome.parses]
  /\ hpc' = "done"
  /\ UNCHANGED <<request, calls, zerion, onekey, nest, dataA, dataB, pc, result>>
  /\ UNCHANGED translation

\* The handler once an answer has left the Zerion calls as z: a failed call
\* rejects getAddressDefiData and the handler's catch answers 500; when both
\* calls have succeeded the dataset is returned, its total being the one of
\* the portfolio or, in the client that recalculates it, the sum of the
\* positions' values.  /defi/zerion answers with the dataset;
\* /compare/sources passes its chains to the OneKey fetch or, with the
\* placeholder client, goes on to compare it (A) with the placeholder's
\* empty dataset (B).
ZerionSettles(z) ==
  IF z.portfolio = "failed" \/ z.positions = "failed"
  THEN /\ zerion' = [z EXCEPT !.pc = "rejected"]
       /\ response' = FailureResponse
       /\ hpc' = "done"
       /\ UNCHANGED <<calls, onekey, dataA, dataB, pc, result>>
  ELSE IF z.portfolio = "ok" /\ z.positions = "ok"
  THEN \E total \in {z.data.totalValueUSD, SumValues(z.data.positions)} :
         LET data == [z.data EXCEPT !.totalValueUSD = total]
         IN /\ zerion' = [z EXCEPT !.pc = "resolved", !.data = data]
            /\ IF request.entry = "zerion"
               THEN /\ response' = SuccessResponse
                    /\ hpc' = "done"
                    /\ UNCHANGED <<calls, onekey, dataA, dataB, pc, result>>
               ELSE IF request.entry = "comparePlaceholder"
               THEN /\ dataA' = data
                    /\ dataB' = ProviderData(<<>>)
                    /\ hpc' = "compare"
                    /\ UNCHANGED <<response, calls, onekey, pc, result>>
               ELSE /\ StartOneKey(TRUE, z.data.chains)
                    /\ hpc' = "onekey"
                    /\ UNCHANGED <<response, dataA, dataB, pc, result>>
  ELSE /\ zerion' = z
       /\ UNCHANGED <<response, hpc, calls, onekey, dataA, dataB, pc, result>>

\* The portfolio request of Zerion is answered, with a 2xx status and a
\* total, or not.
ZerionPortfolioResponds ==
  /\ hpc = "zerion"
  /\ zerion.portfolio = "pending"
  /\ \/ ZerionSettles([zerion EXCEPT !.portfolio = "failed"])
     \/ \E total \in PortfolioTotals :
          ZerionSettles([zerion EXCEPT !.portfolio = "ok",
                                       !.data.totalValueUSD = total])
  /\ UNCHANGED <<request, nest>>
  /\ UNCHANGED translation

\* The positions request of Zerion is answered, with a 2xx status and the
\* items of a list of positions, or not.
ZerionPositionsResponds ==
  /\ hpc = "zerion"
  /\ zerion.positions = "pending"
  /\ \/ ZerionSettles([zerion EXCEPT !.positions = "failed"])
     \/ \E list \in ZerionLists :
          ZerionSettles([zerion EXCEPT !.positions = "ok",
                                       !.data.positions = list,
                                       !.data.chains = extractChains(list)])
  /\ UNCHANGED <<request, nest>>
  /\ UNCHANGED translation

\* Where the answer to request i is recorded.  The requests run concurrently
\* and are answered in any order.  The networks outside SampledNetworks all
\* answer alike, so of their requests it is recorded how many are still
\* open, not which: the answer to one of them is entered at the first of
\* them that is open.
answerSlot(i) ==
  IF onekey.networks[i] \in SampledNetworks THEN i
  ELSE CHOOSE j \in 1..Len(onekey.networks) :
         /\ onekey.networks[j] \notin SampledNetworks
         /\ onekey.responses[j].kind = "none"
         /\ \A k \in 1..(j - 1) :
              onekey.networks[k] \notin SampledNetworks
                => onekey.responses[k].kind # "none"

\* One per-network request of OneKey is answered.  With the last answer
\* Promise.all settles: getAddressDefiData returns its dataset; /defi/onekey
\* answers with it, /compare/sources goes on to compare Zerion's dataset (A)
\* with it (B).
OneKeyResponds ==
  /\ hpc = "onekey"
  /\ onekey.pc = "waiting"
  /\ \E i \in 1..Len(onekey.networks) :
       /\ onekey.responses[i].kind = "none"
       /\ \E outcome \in Outcomes(onekey.networks[i]) :
            LET responses == [onekey.responses EXCEPT ![answerSlot(i)] = outcome]
                completed == IF onekey.networks[i] \in SampledNetworks
                             THEN Append(onekey.completed, onekey.networks[i])
                             ELSE onekey.completed
                data == onekeyDataOf(responses)
            IN IF \E k \in 1..Len(responses) : responses[k].kind = "none"
               THEN /\ onekey' = [onekey EXCEPT !.responses = responses,
                                                !.completed = completed]
                    /\ UNCHANGED <<response, hpc, dataA, dataB, pc, result>>
               ELSE IF onekeyRejects(responses)
               THEN /\ onekey' = [onekey EXCEPT !.responses = responses,
                                                !.completed = completed,
                                                !.pc = "rejected"]
                    /\ response' = FailureResponse
                    /\ hpc' = "done"
                    /\ UNCHANGED <<dataA, dataB, pc, result>>
               ELSE /\ onekey' = [onekey EXCEPT !.responses = responses,
                                                !.completed = completed,
                                                !.pc = "resolved", !.data = data]
                    /\ IF request.entry = "compare"
                       THEN /\ dataA' = zerion.data
                            /\ dataB' = data
                            /\ hpc' = "compare"
                            /\ UNCHANGED <<response, pc, result>>
                       ELSE /\ response' = SuccessResponse
                            /\ hpc' = "done"
                            /\ UNCHANGED <<dataA, dataB, pc, result>>
  /\ UNCHANGED <<request, calls, zerion, nest>>
  /\ UNCHANGED translation

\* /compare/sources, both datasets fetched: the handler compares them by the
\* compareDataSources it imports, the tiered or the simple one, and answers
\* with the result.
RouteCompares ==
  /\ hpc = "compare"
  /\ request.entry \in {"compare", "comparePlaceholder"}
  /\ \/ /\ result' = compareDataSources(dataA, dataB)
        /\ pc' = "tiered"
     \/ /\ result' = compareDataSourcesSimple(dataA, dataB)
        /\ pc' = "simple"
  /\ response' = SuccessResponse
  /\ hpc' = "done"
  /\ UNCHANGED <<request, calls, zerion, onekey, nest, dataA, dataB>>
  /\ UNCHANGED translation

\* ZerionService.getAddressDefiData starts fetchPortfolio and fetchPositions.
started(call) ==
  [call EXCEPT !.pc = "pending", !.portfolio = "pending", !.fetch = "attempt"]

\* GET address/:address of the NestJS controller: ZerionService was built
\* with the API key or, lacking it, with '' and a warning;
\* getAddressDefiData starts fetchPortfolio and fetchPositions.
HandleNestAddress ==
  /\ hpc = "start"
  /\ request.entry = "nest"
  /\ nest' = started(ZerionServiceIdle)
  /\ calls' = calls \o << Call("zerion", "portfolio", <<>>),
                          Call("zerion", "positions", <<>>) >>
  /\ hpc' = "nest"
  /\ UNCHANGED <<request, zerion, onekey, response, dataA, dataB, pc, result>>
  /\ UNCHANGED translation

\* GET address/:address/source/:source: switch (source.toLowerCase()) calls
\* ZerionService for 'zerion', the placeholder service, which sends nothing
\* and returns an empty dataset, for 'placeholder', and returns
\* ApiResponse.error for any other source.
HandleNestSource ==
  /\ hpc = "start"
  /\ request.entry = "nestSource"
  /\ LET source == toLowerCase(request.param)
     IN IF source = <<"z", "e", "r", "i", "o", "n">>
        THEN /\ nest' = started(ZerionServiceIdle)
             /\ calls' = calls \o << Call("zerion", "portfolio", <<>>),
                                     Call("zerion", "positions", <<>>) >>
             /\ hpc' = "nest"
             /\ UNCHANGED response
        ELSE /\ response' =
                  IF source = <<"p", "l", "a", "c", "e", "h", "o", "l", "d", "e", "r">>
                  THEN SuccessResponse ELSE ErrorResponse
             /\ hpc' = "done"
             /\ nest' = ZerionServiceIdle
             /\ UNCHANGED calls
  /\ UNCHANGED <<request, zerion, onekey, dataA, dataB, pc, result>>
  /\ UNCHANGED translation

\* GET compare?addressA=&addressB=: without one of the addresses the
\* controller returns ApiResponse.error; otherwise
\* CompareService.compareAddresses starts getAddressDefiData for both
\* addresses in one Promise.all.
HandleNestCompareAddresses ==
  /\ hpc = "start"
  /\ request.entry = "nestCompare"
  /\ IF ~request.addressA \/ ~request.addressB
     THEN /\ response' = ErrorResponse
          /\ hpc' = "done"
          /\ nest' = ZerionServiceIdle
          /\ UNCHANGED calls
     ELSE /\ nest' = [started(ZerionServiceIdle) EXCEPT
                        !.second = started(ZerionCallIdle)]
          /\ calls' = calls \o << Call("zerion", "portfolio", <<>>),
                                  Call("zerion", "positions", <<>>),
                                  Call("zerion", "portfolio", <<>>),
                                  Call("zerion", "positions", <<>>) >>
          /\ hpc' = "nest"
          /\ UNCHANGED response
  /\ UNCHANGED <<request, zerion, onekey, dataA, dataB, pc, result>>
  /\ UNCHANGED translation

\* GET compare/sources/:address: CompareService.compareDataSources starts
\* getAddressDefiData of ZerionService beside that of the placeholder
\* service, which sends nothing.
HandleNestCompareSources ==
  /\ hpc = "start"
  /\ request.entry = "nestSources"
  /\ nest' = started(ZerionServiceIdle)
  /\ calls' = calls \o << Call("zerion", "portfolio", <<>>),
                          Call("zerion", "positions", <<>>) >>
  /\ hpc' = "nest"
  /\ UNCHANGED <<request, zerion, onekey, response, dataA, dataB, pc, result>>
  /\ UNCHANGED translation

\* ZerionService.getRawPositions: fetchPositions alone.  No handler answers,
\* the caller gets the list.
HandleNestRawPositions ==
  /\ hpc = "start"
  /\ request.entry = "nestRaw"
  /\ nest' = [ZerionServiceIdle EXCEPT !.fetch = "attempt"]
  /\ calls' = Append(calls, Call("zerion", "positions", <<>>))
  /\ hpc' = "nest"
  /\ UNCHANGED <<request, zerion, onekey, response, dataA, dataB, pc, result>>
  /\ UNCHANGED translation

\* A call of getAddressDefiData once fetchPortfolio and fetchPositions have
\* both returned: it returns its dataset, or rethrows what transformPositions
\* threw.
returned(call) ==
  IF call.pc = "pending" /\ call.portfolio = "done" /\ call.fetch = "returned"
  THEN IF transformPositionsThrows(call.raw)
       THEN [call EXCEPT !.pc = "rejected"]
       ELSE [call EXCEPT !.pc = "resolved",
                         !.data = zerionServiceData(call.totalValue, call.raw)]
  ELSE call

\* The caller once a step has left ZerionService as n.  The controller
\* answers address/:address and address/:address/source/zerion with the
\* dataset when getAddressDefiData has returned it; for
\* compare/sources/:address and compare, CompareService goes on to compare
\* it (A) with the placeholder's empty dataset, or with the dataset of
\* addressB (B); getRawPositions returns when fetchPositions has.  When a
\* call of getAddressDefiData rejects, Promise.all of CompareService rejects
\* with it and the catch of the controller returns ApiResponse.error; the
\* other call of compareAddresses goes on, and what it ends in is dropped.
ZerionServiceSettles(n) ==
  LET after == [returned(n) EXCEPT !.second = returned(n.second)]
      rejected == after.pc = "rejected" \/ after.second.pc = "rejected"
      settled ==
        IF request.entry = "nestRaw" THEN after.fetch = "returned"
        ELSE IF request.entry = "nestCompare"
             THEN after.pc = "resolved" /\ after.second.pc = "resolved"
             ELSE after.pc = "resolved"
      against == IF request.entry = "nestCompare" THEN after.second.data
                 ELSE zerionServiceData(0, <<>>)
  IN /\ nest' = after
     /\ IF hpc = "done"
        THEN UNCHANGED <<response, hpc, dataA, dataB, pc, result>>
        ELSE IF rejected
        THEN /\ response' = ErrorResponse
             /\ hpc' = "done"
             /\ UNCHANGED <<dataA, dataB, pc, result>>
        ELSE IF ~settled
        THEN UNCHANGED <<response, hpc, dataA, dataB, pc, result>>
        ELSE IF request.entry \in {"nestCompare", "nestSources"}
        THEN /\ dataA' = after.data
             /\ dataB' = against
             /\ hpc' = "compare"
             /\ UNCHANGED <<response, pc, result>>
        ELSE /\ hpc' = "done"
             /\ response' = IF request.entry = "nestRaw" THEN NoResponse
                            ELSE SuccessResponse
             /\ UNCHANGED <<dataA, dataB, pc, result>>

\* compare and compare/sources/:address, both datasets fetched:
\* compareDefiData compares them, merging in place the positions that share
\* a key, and the controller answers with the result.
ServiceCompares ==
  /\ hpc = "compare"
  /\ request.entry \in {"nestCompare", "nestSources"}
  /\ result' = compareDefiData(dataA, dataB)
  /\ dataA' = dataAfterCompare(dataA)
  /\ dataB' = dataAfterCompare(dataB)
  /\ pc' = "service"
  /\ response' = SuccessResponse
  /\ hpc' = "done"
  /\ UNCHANGED <<request, calls, zerion, onekey, nest>>
  /\ UNCHANGED translation

\* What fetchPortfolio may return: the total of a response, 0 after an error.
ServiceTotals == IF request.ZERION_API_KEY THEN PortfolioTotals ELSE {0}

\* What an attempt of fetchPositions may end in.
ServiceOutcomes ==
  IF request.entry = "nestCompare" THEN AddressPairOutcomes(request.ZERION_API_KEY)
  ELSE AttemptOutcomes(request.ZERION_API_KEY)

\* The call once fetchPortfolio has got its answer.
portfolioReturns(call, total) ==
  [call EXCEPT !.portfolio = "done", !.totalValue = total]

\* The call once an attempt of fetchPositions has got its answer: the loop
\* body returns, or starts a sleep.
attemptReturns(call, outcome) ==
  LET step == fetchPositionsStep(outcome)
      answered == [call EXCEPT !.answers = Append(@, outcome.status)]
  IN IF step.next = "sleep"
     THEN [answered EXCEPT !.fetch = "sleep", !.ms = step.ms]
     ELSE [answered EXCEPT !.fetch = "returned", !.raw = step.positions]

\* The call once its sleep has ended: retries++, then the loop condition
\* starts the next attempt or leaves the loop, which returns [].
sleepReturns(call) ==
  LET slept == [call EXCEPT !.retries = @ + 1, !.waits = Append(@, call.ms),
                            !.ms = 0]
  IN IF retriesLeft(slept.retries)
     THEN [slept EXCEPT !.fetch = "attempt"]
     ELSE [slept EXCEPT !.fetch = "returned", !.raw = <<>>]

\* fetchPortfolio gets its answer.  The requests of ZerionService are
\* answered while the controller waits and, for the call of compareAddresses
\* that is still running when the other one has rejected, after it has
\* answered.
PortfolioResponds ==
  /\ hpc \in {"nest", "done"}
  /\ nest.portfolio = "pending"
  /\ \E total \in ServiceTotals : ZerionServiceSettles(portfolioReturns(nest, total))
  /\ UNCHANGED <<request, calls, zerion, onekey>>
  /\ UNCHANGED translation

\* An attempt of fetchPositions gets its answer.
AttemptResponds ==
  /\ hpc \in {"nest", "done"}
  /\ nest.fetch = "attempt"
  /\ \E outcome \in ServiceOutcomes : ZerionServiceSettles(attemptReturns(nest, outcome))
  /\ UNCHANGED <<request, calls, zerion, onekey>>
  /\ UNCHANGED translation

\* The sleep of fetchPositions ends; a further attempt sends its request.
BackoffElapses ==
  /\ hpc \in {"nest", "done"}
  /\ nest.fetch = "sleep"
  /\ ZerionServiceSettles(sleepReturns(nest))
  /\ calls' = IF sleepReturns(nest).fetch = "attempt"
              THEN Append(calls, Call("zerion", "positions", <<>>))
              ELSE calls
  /\ UNCHANGED <<request, zerion, onekey>>
  /\ UNCHANGED translation

\* fetchPortfolio of the call for addressB gets its answer.
SecondPortfolioResponds ==
  /\ hpc \in {"nest", "done"}
  /\ nest.second.portfolio = "pending"
  /\ \E total \in ServiceTotals :
       ZerionServiceSettles([nest EXCEPT !.second = portfolioReturns(@, total)])
  /\ UNCHANGED <<request, calls, zerion, onekey>>
  /\ UNCHANGED translation

\* An attempt of fetchPositions of the call for addressB gets its answer.
SecondAttemptResponds ==
  /\ hpc \in {"nest", "done"}
  /\ nest.second.fetch = "attempt"
  /\ \E outcome \in ServiceOutcomes :
       ZerionServiceSettles([nest EXCEPT !.second = attemptReturns(@, outcome)])
  /\ UNCHANGED <<request, calls, zerion, onekey>>
  /\ UNCHANGED translation

\* The sleep of fetchPositions of the call for addressB ends.
SecondBackoffElapses ==
  /\ hpc \in {"nest", "done"}
  /\ nest.second.fetch = "sleep"
  /\ ZerionServiceSettles([nest EXCEPT !.second = sleepReturns(@)])
  /\ calls' = IF sleepReturns(nest.second).fetch = "attempt"
              THEN Append(calls, Call("zerion", "positions", <<>>))
              ELSE calls
  /\ UNCHANGED <<request, zerion, onekey>>
  /\ UNCHANGED translation

\* The caller, answered, sends the next request to the NestJS application:
\* its ZerionService stays, and the record of its last call with it until
\* the next call starts afresh.  The Worker keeps nothing of a request, a
\* further request to one of its routes starts in the state the first one
\* started in, so its requests are followed one at a time.
NextRequest ==
  /\ hpc = "done"
  /\ request.entry = "nest"
  /\ request.number < MaxRequests
  /\ request' = [request EXCEPT !.number = @ + 1]
  /\ hpc' = "start"
  /\ calls' = <<>>
  /\ response' = NoResponse
  /\ zerion' = ZerionIdle
  /\ onekey' = OneKeyIdle
  /\ dataA' = AddressDefiData(<<>>)
  /\ dataB' = AddressDefiData(<<>>)
  /\ pc' = "fetch"
  /\ result' = NoResult
  /\ UNCHANGED nest
  /\ UNCHANGED translation

FetchNext ==
  \/ HandleZerion
  \/ HandleOneKey
  \/ HandleCompare
  \/ HandleOneKeyPlaceholder
  \/ HandleComparePlaceholder
  \/ HandleDebugZerion
  \/ DebugZerionResponds
  \/ HandleDebugOneKey
  \/ DebugOneKeyResponds
  \/ ZerionPortfolioResponds
  \/ ZerionPositionsResponds
  \/ OneKeyResponds
  \/ RouteCompares
  \/ HandleNestAddress
  \/ HandleNestSource
  \/ HandleNestCompareAddresses
  \/ HandleNestCompareSources
  \/ HandleNestRawPositions
  \/ PortfolioResponds
  \/ AttemptResponds
  \/ BackoffElapses
  \/ SecondPortfolioResponds
  \/ SecondAttemptResponds
  \/ SecondBackoffElapses
  \/ ServiceCompares
  \/ NextRequest

FetchSpec == FetchInit /\ [][FetchNext]_vars

\* Every HTTP attempt of ZerionService ends, in a response or in an error,
\* and every timer set by sleep fires.
FairFetchSpec ==
  FetchSpec /\ WF_vars(AttemptResponds) /\ WF_vars(BackoffElapses)

(***************************************************************************)
(* The specification of a chain translation: two identifiers are given to  *)
(* one of the three lookups of the OneKey client.                          *)
(***************************************************************************)
\* Chain names and network ids as a provider may write them: canonical
\* names, OneKey's short names and network ids, in several letter cases, and
\* a chain OneKey has no network for and names of members of Object.prototype.
ChainIdentifiers ==
  { ethereum, <<"E", "t", "h", "e", "r", "e", "u", "m">>,
    <<"e", "t", "h">>, <<"E", "T", "H">>,
    arbitrum, <<"A", "r", "b", "i", "t", "r", "u", "m">>,
    <<"a", "r", "b">>, <<"A", "R", "B">>,
    evm1, <<"E", "V", "M", "-", "-", "1">>,
    evm42161, <<"E", "v", "m", "-", "-", "4", "2", "1", "6", "1">>,
    solana, <<"S", "o", "l", "a", "n", "a">>,
    constructor, <<"C", "o", "n", "s", "t", "r", "u", "c", "t", "o", "r">>,
    <<"_", "_", "p", "r", "o", "t", "o", "_", "_">> }

\* A raw position that names only its network.
RawOnNetwork(networkId) ==
  [networkId |-> networkId, protocol |-> <<"a">>, chain |-> undefined,
   category |-> <<>>, assets |-> <<>>, rewards |-> <<>>, debts |-> <<>>,
   groupId |-> <<>>]

TranslateInit ==
  /\ translation \in [step : {"input"}, a : ChainIdentifiers, b : ChainIdentifiers,
                       ofA : {<<>>}, ofB : {<<>>}]
  /\ dataA = AddressDefiData(<<>>)
  /\ dataB = AddressDefiData(<<>>)
  /\ pc = "none"
  /\ result = NoResult
  /\ NoRequest

\* normalizeChainName is applied to both identifiers.
TranslateChainName ==
  /\ translation.step = "input"
  /\ translation' = [translation EXCEPT
                       !.step = "normalizeChainName",
                       !.ofA = normalizeChainName(translation.a),
                       !.ofB = normalizeChainName(translation.b)]
  /\ UNCHANGED <<dataA, dataB, pc, result, request, hpc, calls, zerion, onekey,
                 nest, response>>

\* getNetworkIdsFromChains is applied to a scope of each identifier.
TranslateScope ==
  /\ translation.step = "input"
  /\ translation' = [translation EXCEPT
                       !.step = "getNetworkIdsFromChains",
                       !.ofA = getNetworkIdsFromChains(<< translation.a >>),
                       !.ofB = getNetworkIdsFromChains(<< translation.b >>)]
  /\ UNCHANGED <<dataA, dataB, pc, result, request, hpc, calls, zerion, onekey,
                 nest, response>>

\* The chain of the Position transformPosition returns for a position
\* without chain name on the network, TypeError when it throws.
chainOnNetwork(networkId) ==
  IF transformPositionThrows(RawOnNetwork(networkId)) THEN TypeError
  ELSE transformPosition(RawOnNetwork(networkId), 0).protocol.chain

\* transformPosition is applied to a position without chain name on the
\* network of each identifier.
TranslateNetworkId ==
  /\ translation.step = "input"
  /\ translation' = [translation EXCEPT
                       !.step = "transformPosition",
                       !.ofA = chainOnNetwork(translation.a),
                       !.ofB = chainOnNetwork(translation.b)]
  /\ UNCHANGED <<dataA, dataB, pc, result, request, hpc, calls, zerion, onekey,
                 nest, response>>

TranslateNext == TranslateChainName \/ TranslateScope \/ TranslateNetworkId

TranslateSpec == TranslateInit /\ [][TranslateNext]_vars

(***************************************************************************)
(* Vocabulary of the properties                                            *)
(***************************************************************************)
positionsA == dataA.positions
positionsB == dataB.positions
diffs == result.positionDiffs

ExactKeys(positions) ==
  {getPositionMatchKey(positions[j]) : j \in 1..Len(positions)}

\* The diffs that pair an A position with a B position.
PairedDiffs == {k \in 1..Len(diffs) : diffs[k].idxA # 0 /\ diffs[k].idxB # 0}

\* The bijections of 1..n, and a list reordered by one.
Perms(n) == {f \in [1..n -> 1..n] : \A i, j \in 1..n : f[i] = f[j] => i = j}
Permute(list, f) == [i \in 1..Len(list) |-> list[f[i]]]

\* What a PositionDiff holds, without the indexes of its positions.
DiffContent(d) ==
  [diffType |-> d.diffType, chain |-> d.chain, type |-> d.type,
   positionA |-> d.positionA, positionB |-> d.positionB,
   valueDiffUSD |-> d.valueDiffUSD, valueDiffPercent |-> d.valueDiffPercent]

\* A list of diffs as a multiset of contents.
BagOfDiffs(list) ==
  [c \in {DiffContent(list[k]) : k \in 1..Len(list)} |->
     Cardinality({k \in 1..Len(list) : DiffContent(list[k]) = c})]

(***************************************************************************)
(* C1..C4: accounting of the tiered compareDataSources                     *)
(***************************************************************************)
\* C1 (as claimed): the tiered diff list holds one removed, changed or
\* unchanged entry per distinct exact key of A.
C1_OneEntryPerDistinctKeyOfA ==
  pc = "tiered" =>
    CountType(diffs, "removed") + CountType(diffs, "changed")
      + CountType(diffs, "unchanged") = Cardinality(ExactKeys(positionsA))

\* C2 (as claimed): permuting the position lists of A and B leaves the
\* multiset of PositionDiffs and the summary of the tiered comparison
\* unchanged.
C2_PermutationInvariant ==
  pc = "tiered" =>
    \A f \in Perms(Len(positionsA)) : \A g \in Perms(Len(positionsB)) :
      LET permuted == compareDataSources(
                        [dataA EXCEPT !.positions = Permute(positionsA, f)],
                        [dataB EXCEPT !.positions = Permute(positionsB, g)])
      IN /\ BagOfDiffs(permuted.positionDiffs) = BagOfDiffs(diffs)
         /\ permuted.summary = result.summary

\* C3 (as claimed): no position of B is paired with more than one position
\* of A by the tiered comparison.
C3_NoBPairedTwice ==
  pc = "tiered" =>
    \A k, l \in PairedDiffs : diffs[k].idxB = diffs[l].idxB => k = l

\* C4 (as claimed): every position of B is the positionB of a changed,
\* unchanged or added diff of the tiered comparison, and the added diffs
\* are as many as the B positions paired with no A position.
C4_EveryBAccounted ==
  pc = "tiered" =>
    /\ \A j \in 1..Len(positionsB) : \E k \in 1..Len(diffs) : diffs[k].idxB = j
    /\ CountType(diffs, "added") =
         Cardinality({j \in 1..Len(positionsB) :
                        \A k \in PairedDiffs : diffs[k].idxB # j})

(***************************************************************************)
(* C5: merging of positions within one dataset                             *)
(***************************************************************************)
\* The positions CompareService matches: the merged copies of each side.
mergedA == createPositionMap(positionsA)
mergedB == createPositionMap(positionsB)

\* p and q agree on protocol id, chain and type, as written.
SameProtocolChainType(p, q) ==
  /\ p.protocol.id = q.protocol.id
  /\ p.protocol.chain = q.protocol.chain
  /\ p.type = q.type

\* The positions of a list (from j on) that agree with p on protocol id,
\* chain and type: the sum of their values, and their token lists appended.
RECURSIVE GroupValue(_, _, _)
GroupValue(positions, j, p) ==
  IF j > Len(positions) THEN 0
  ELSE (IF SameProtocolChainType(positions[j], p)
        THEN positions[j].totalValueUSD ELSE 0)
       + GroupValue(positions, j + 1, p)

RECURSIVE GroupTokens(_, _, _)
GroupTokens(positions, j, p) ==
  IF j > Len(positions) THEN <<>>
  ELSE (IF SameProtocolChainType(positions[j], p)
        THEN positions[j].tokens ELSE <<>>)
       \o GroupTokens(positions, j + 1, p)

\* C5 (as claimed): positions are combined exactly when they share the
\* exact key (protocol + chain + type + token symbols), so no side holds two
\* positions under one exact key and positions that differ in token symbols
\* stay apart.
MergedByExactKey(positions, merged) ==
  /\ Len(merged) = Cardinality(ExactKeys(positions))
  /\ \A k, l \in 1..Len(merged) :
       getPositionMatchKey(merged[k].position)
         = getPositionMatchKey(merged[l].position) => k = l

MergedByProtocolChainType(positions, merged) ==
  /\ \A j \in 1..Len(positions) : \E k \in 1..Len(merged) :
       SameProtocolChainType(merged[k].position, positions[j])
  /\ \A k, l \in 1..Len(merged) :
       SameProtocolChainType(merged[k].position, merged[l].position) => k = l
  /\ \A k \in 1..Len(merged) :
       /\ merged[k].position.totalValueUSD
            = GroupValue(positions, 1, merged[k].position)
       /\ merged[k].position.tokens
            = GroupTokens(positions, 1, merged[k].position)

ServiceMergesByProtocolChainType ==
  pc = "service" =>
    /\ MergedByProtocolChainType(positionsA, mergedA)
    /\ MergedByProtocolChainType(positionsB, mergedB)
    /\ \A k \in 1..Len(diffs) :
         /\ diffs[k].idxA # 0 =>
              \E m \in 1..Len(mergedA) : diffs[k].positionA = mergedA[m].position
         /\ diffs[k].idxB # 0 =>
              \E m \in 1..Len(mergedB) : diffs[k].positionB = mergedB[m].position

\* Every position of a tiered diff is one of the dataset, as given.
TieredCombinesNothing ==
  pc = "tiered" =>
    \A k \in 1..Len(diffs) :
      /\ diffs[k].positionA \in {Absent} \cup {positionsA[i] : i \in 1..Len(positionsA)}
      /\ diffs[k].positionB \in {Absent} \cup {positionsB[j] : j \in 1..Len(positionsB)}

C6_ThresholdStrict ==
  pc = "tiered" =>
    \A k \in PairedDiffs :
      LET valueA == diffs[k].positionA.totalValueUSD
          valueB == diffs[k].positionB.totalValueUSD
      IN valueA > 0 =>
           /\ diffs[k].diffType \in {"changed", "unchanged"}
           /\ diffs[k].diffType = "changed" <=> Abs(valueB - valueA) * 100 > valueA

\* A pair that differs by exactly 1% (100 -> 101) is unchanged, beside a
\* changed pair that differs by more (102 -> 100).
C6_Witness ==
  /\ pc = "tiered"
  /\ \E k \in PairedDiffs :
       /\ diffs[k].positionA.totalValueUSD = 100
       /\ diffs[k].positionB.totalValueUSD = 101
       /\ diffs[k].diffType = "unchanged"
  /\ \E k \in PairedDiffs :
       /\ diffs[k].positionA.totalValueUSD = 102
       /\ diffs[k].positionB.totalValueUSD = 100
       /\ diffs[k].diffType = "changed"

(***************************************************************************)
(* C7: the loose-key fallback                                              *)
(***************************************************************************)
\* matchedBKeys when the loop over A reaches position i.
MatchedBefore(i) == loopA(SubSeq(positionsA, 1, i - 1), positionsB, 1, {}).matchedBKeys

\* A[i] has no exact-key counterpart in B, and B holds a position of the
\* same loose key that is not claimed when the loop reaches A[i].
LooseCase(i) ==
  /\ getPositionMatchKey(positionsA[i]) \notin ExactKeys(positionsB)
  /\ \E j \in 1..Len(positionsB) :
       /\ getLooseMatchKey(positionsB[j]) = getLooseMatchKey(positionsA[i])
       /\ getPositionMatchKey(positionsB[j]) \notin MatchedBefore(i)

\* C7: in the loose case the tiered comparison emits for A[i] exactly one
\* diff, changed or unchanged, pairing it with an unclaimed B position of
\* its loose key; that B position is in no added diff.
C7_LooseFallbackPairs ==
  pc = "tiered" =>
    \A i \in 1..Len(positionsA) :
      LooseCase(i) =>
        /\ Cardinality({k \in 1..Len(diffs) : diffs[k].idxA = i}) = 1
        /\ \A k \in 1..Len(diffs) :
             diffs[k].idxA = i =>
               /\ diffs[k].diffType \in {"changed", "unchanged"}
               /\ diffs[k].idxB \in 1..Len(positionsB)
               /\ diffs[k].positionA = positionsA[i]
               /\ diffs[k].positionB = positionsB[diffs[k].idxB]
               /\ getLooseMatchKey(positionsB[diffs[k].idxB])
                    = getLooseMatchKey(positionsA[i])
               /\ getPositionMatchKey(positionsB[diffs[k].idxB])
                    \notin MatchedBefore(i)
               /\ \A l \in 1..Len(diffs) :
                    diffs[l].diffType = "added" => diffs[l].idxB # diffs[k].idxB

\* The loose case happens for a second A position, after a first A position
\* has claimed another candidate of the same loose key.
C7_Witness ==
  /\ pc = "tiered"
  /\ \E i \in 1..Len(positionsA) :
       /\ LooseCase(i)
       /\ MatchedBefore(i) # {}
       /\ \E k \in PairedDiffs :
            /\ diffs[k].idxA = i
            /\ getPositionMatchKey(diffs[k].positionB)
                 # getPositionMatchKey(positionsA[i])

(***************************************************************************)
(* C8: order of the tokens inside a position                               *)
(***************************************************************************)
\* positions with the tokens of position i reordered by f.
WithTokensPermuted(positions, i, f) ==
  [positions EXCEPT ![i].tokens = Permute(@, f)]

\* The pairs a diff list makes, and the type of each.
Pairing(list) ==
  {<<list[k].idxA, list[k].idxB, list[k].diffType>> : k \in 1..Len(list)}

\* C8 (as claimed): reordering the tokens of any one position of A or of B
\* leaves the pairs and the diff types of the tiered comparison unchanged.
C8_TokenOrderIrrelevant ==
  pc = "tiered" =>
    /\ \A i \in 1..Len(positionsA) :
         \A f \in Perms(Len(positionsA[i].tokens)) :
           Pairing(tieredDiffs(WithTokensPermuted(positionsA, i, f), positionsB))
             = Pairing(diffs)
    /\ \A j \in 1..Len(positionsB) :
         \A f \in Perms(Len(positionsB[j].tokens)) :
           Pairing(tieredDiffs(positionsA, WithTokensPermuted(positionsB, j, f)))
             = Pairing(diffs)

(***************************************************************************)
(* C9: order of the diff list                                              *)
(***************************************************************************)
\* list is sorted by rank of diff type, then by descending |valueDiffUSD|.
SortedBy(list, rank) ==
  \A k, l \in 1..Len(list) :
    k < l =>
      /\ rank[list[k].diffType] <= rank[list[l].diffType]
      /\ list[k].diffType = list[l].diffType =>
           Abs(list[k].valueDiffUSD) >= Abs(list[l].valueDiffUSD)

RemovedFirst == [removed |-> 1, added |-> 2, changed |-> 3, unchanged |-> 4]
AddedFirst == [added |-> 1, removed |-> 2, changed |-> 3, unchanged |-> 4]

\* C9 (as claimed): both implementations return the diffs with removed
\* before added before changed before unchanged, and within one type in
\* non-increasing order of |valueDiffUSD|.
C9_SortedRemovedFirst ==
  pc \in {"tiered", "service"} => SortedBy(diffs, RemovedFirst)

\* C9 (amended): the tiered compareDataSources returns removed before added
\* before changed before unchanged; CompareService.compareDefiData returns
\* added before removed before changed; both order one type by
\* non-increasing |valueDiffUSD|.
C9_SortedPerImplementation ==
  /\ pc = "tiered" => SortedBy(diffs, RemovedFirst)
  /\ pc = "service" => SortedBy(diffs, AddedFirst)

\* CompareService returned two removed diffs of different size and an
\* added one, which the comparison had pushed in another order.
C9_Witness ==
  /\ pc = "service"
  /\ CountType(diffs, "added") >= 1
  /\ \E k, l \in 1..Len(diffs) :
       /\ diffs[k].diffType = "removed" /\ diffs[l].diffType = "removed"
       /\ Abs(diffs[k].valueDiffUSD) > Abs(diffs[l].valueDiffUSD)
       /\ diffs[k].idxA > diffs[l].idxA

(***************************************************************************)
(* C10: summary counts against the diff list                               *)
(***************************************************************************)
\* C10 (as claimed): in the result of either implementation the four counts
\* of the summary are the numbers of removed, added, changed and unchanged
\* diffs of the returned list.
C10_SummaryCountsMatchDiffs ==
  pc \in {"tiered", "service"} =>
    /\ result.summary.positionsOnlyInA = CountType(diffs, "removed")
    /\ result.summary.positionsOnlyInB = CountType(diffs, "added")
    /\ result.summary.changedPositions = CountType(diffs, "changed")
    /\ result.summary.commonPositions = CountType(diffs, "unchanged")

(***************************************************************************)
(* C11: the worked example, 1000 against 1100                              *)
(***************************************************************************)
\* The fraction p is the number n.
PercentIs(p, n) == p[1] = n * p[2]

ScenarioA == AddressDefiData(<< Pos(protocolA, eth, lending, << <<"u">> >>, 1000) >>)
ScenarioB == AddressDefiData(<< Pos(protocolA, eth, lending, << <<"u">> >>, 1100) >>)

\* C11: for dataset A with total 1000 and one lending position of value 1000
\* and dataset B with total 1100 and one position of the same protocol,
\* chain, type and tokens and value 1100, compareDataSources returns the
\* summary {100, 10%, 0 only in A, 0 only in B, 0 common, 1 changed} and
\* exactly one diff, of type changed with valueDiffPercent 10.
C11_WorkedExample ==
  (pc \in {"tiered", "simple"} /\ dataA = ScenarioA /\ dataB = ScenarioB) =>
    /\ dataA.totalValueUSD = 1000
    /\ dataB.totalValueUSD = 1100
    /\ result.summary.totalValueDiffUSD = 100
    /\ PercentIs(result.summary.totalValueDiffPercent, 10)
    /\ result.summary.positionsOnlyInA = 0
    /\ result.summary.positionsOnlyInB = 0
    /\ result.summary.commonPositions = 0
    /\ result.summary.changedPositions = 1
    /\ Len(diffs) = 1
    /\ diffs[1].diffType = "changed"
    /\ diffs[1].valueDiffUSD = 100
    /\ PercentIs(diffs[1].valueDiffPercent, 10)

\* The tiered comparison has returned for the datasets of the example.
C11_Witness ==
  /\ pc = "tiered"
  /\ dataA = ScenarioA
  /\ dataB = ScenarioB
  /\ Len(diffs) = 1

(***************************************************************************)
(* C12: zero values in the tiered comparison                               *)
(***************************************************************************)
\* The B positions that no diff pairs with an A position.
UnpairedB == {j \in 1..Len(positionsB) : \A k \in PairedDiffs : diffs[k].idxB # j}

\* A pair of two zero values has percentage 0 and is unchanged; a pair of a
\* zero A value and a positive B value has percentage 100.
ZeroValuePairs ==
  \A k \in PairedDiffs :
    LET valueA == diffs[k].positionA.totalValueUSD
        valueB == diffs[k].positionB.totalValueUSD
    IN /\ (valueA = 0 /\ valueB = 0) =>
            /\ PercentIs(diffs[k].valueDiffPercent, 0)
            /\ diffs[k].diffType = "unchanged"
       /\ (valueA = 0 /\ valueB > 0) => PercentIs(diffs[k].valueDiffPercent, 100)

\* A B position of positive value that is paired with no A position has an
\* added diff.
UnpairedPositiveBAdded ==
  \A j \in UnpairedB :
    positionsB[j].totalValueUSD > 0 =>
      \E k \in 1..Len(diffs) : diffs[k].idxB = j /\ diffs[k].diffType = "added"

\* C12: in the tiered compareDataSources a matched pair with A.value = 0 and
\* B.value = 0 gets valueDiffPercent 0 and diffType unchanged, a B position
\* with value > 0 that is paired with no A position is classified added, and
\* a matched pair with A.value = 0 and B.value > 0 gets valueDiffPercent 100.
C12_ZeroValueCases ==
  pc = "tiered" => ZeroValuePairs /\ UnpairedPositiveBAdded

(***************************************************************************)
(* C20: the inputs are not mutated                                         *)
(***************************************************************************)
\* C20: a reconciliation step (CompareService.compareDefiData or
\* compareDataSources) leaves both input datasets as they were: every
\* position keeps its totalValueUSD and token list and both lists keep their
\* elements and order, also when positions sharing a key were merged.
C20_InputsNotMutated ==
  [][(pc = "input" /\ pc' \in {"tiered", "simple", "service"})
       => (dataA' = dataA /\ dataB' = dataB)]_vars

\* CompareService has returned after merging two A positions of one key,
\* the second of which brought tokens.
C20_Witness ==
  /\ pc = "service"
  /\ \E i, j \in 1..Len(positionsA) :
       /\ i < j
       /\ positionMapKey(positionsA[i]) = positionMapKey(positionsA[j])
       /\ positionsA[j].tokens # <<>>
       /\ positionsA[j].totalValueUSD # 0

(***************************************************************************)
(* C13: the chain tables are inverse to each other                         *)
(***************************************************************************)
NetworkIdsOfTable == {NETWORK_ID_TO_CHAIN[i][1] : i \in 1..Len(NETWORK_ID_TO_CHAIN)}
ChainsOfTable == {NETWORK_ID_TO_CHAIN[i][2] : i \in 1..Len(NETWORK_ID_TO_CHAIN)}

\* The two tables are inverse to each other on all their entries.
ChainTablesInverse ==
  /\ \A c \in ChainsOfTable :
       Lookup(NETWORK_ID_TO_CHAIN, Lookup(CHAIN_TO_NETWORK_ID, c)) = c
  /\ \A n \in NetworkIdsOfTable :
       Lookup(CHAIN_TO_NETWORK_ID, Lookup(NETWORK_ID_TO_CHAIN, n)) = n
  /\ \A i, j \in 1..Len(NETWORK_ID_TO_CHAIN) :
       NETWORK_ID_TO_CHAIN[i][2] = NETWORK_ID_TO_CHAIN[j][2]
         => NETWORK_ID_TO_CHAIN[i][1] = NETWORK_ID_TO_CHAIN[j][1]

\* C13: for every chain c that is a value of NETWORK_ID_TO_CHAIN,
\* NETWORK_ID_TO_CHAIN[CHAIN_TO_NETWORK_ID[c]] = c; for every network id n of
\* the table, CHAIN_TO_NETWORK_ID[NETWORK_ID_TO_CHAIN[n]] = n, the networks
\* of a request in progress among them; and no two network ids map to the
\* same chain.
C13_TablesMutuallyInverse ==
  /\ ChainTablesInverse
  /\ \A k \in 1..Len(onekey.networks) :
       HasOwn(NETWORK_ID_TO_CHAIN, onekey.networks[k])
         => Lookup(CHAIN_TO_NETWORK_ID,
                   Lookup(NETWORK_ID_TO_CHAIN, onekey.networks[k]))
              = onekey.networks[k]

\* Both tables have been used on one chain: the scope ethereum was translated
\* to the network evm--1, and a position that came back from that network
\* without a chain name was given the chain ethereum.
C13_Witness ==
  /\ onekey.pc = "resolved"
  /\ onekey.scope = << ethereum >>
  /\ onekey.networks = << evm1 >>
  /\ \E k \in 1..Len(onekey.data.positions) :
       /\ onekey.responses[1].positions[k].chain = <<>>
       /\ onekey.data.positions[k].protocol.chain = ethereum

(***************************************************************************)
(* C14: per-network failures do not fail the OneKey fetch                  *)
(***************************************************************************)
\* The request ended in a 2xx response whose body parses and carries no
\* API error code.
Succeeded(outcome) ==
  /\ outcome.kind = "response"
  /\ outcome.status >= 200
  /\ outcome.status <= 299
  /\ outcome.parses
  /\ outcome.hasCode => outcome.code = 0

AllAnswered == \A k \in 1..Len(onekey.responses) : onekey.responses[k].kind # "none"

\* The raw positions of the networks that succeeded, in network order.
RawOfSucceeded ==
  flat([k \in 1..Len(onekey.responses) |->
          IF Succeeded(onekey.responses[k]) THEN onekey.responses[k].positions
          ELSE <<>>])

\* C14: whatever the queried networks ended in (non-2xx status, transport
\* error, unparseable body, non-zero API code, success), the OneKey
\* getAddressDefiData does not reject: once every network has answered it
\* has resolved with the normalized positions of exactly the networks that
\* succeeded, and the caller is answered with success.
C14_PerNetworkFailuresAbsorbed ==
  /\ onekey.pc # "rejected"
  /\ (onekey.pc = "waiting" => ~AllAnswered)
  /\ onekey.pc = "resolved" =>
       /\ AllAnswered
       /\ onekey.data.positions =
            [k \in 1..Len(RawOfSucceeded) |-> transformPosition(RawOfSucceeded[k], k - 1)]
       /\ hpc = "done" => response = SuccessResponse

\* The fetch has resolved with positions although one network ended in a
\* transport error and another in an error status.
C14_Witness ==
  /\ onekey.pc = "resolved"
  /\ onekey.data.positions # <<>>
  /\ \E k \in 1..Len(onekey.responses) : onekey.responses[k] = TransportError
  /\ \E k \in 1..Len(onekey.responses) : onekey.responses[k] = ErrorStatus(500)

(***************************************************************************)
(* C15: the retry budget of ZerionService.fetchPositions                   *)
(***************************************************************************)
\* The HTTP attempts fetchPositions has issued for the current request.
PositionsAttempts ==
  Cardinality({k \in 1..Len(calls) :
                 calls[k].provider = "zerion" /\ calls[k].endpoint = "positions"})

RetryStatuses == {202, 429}

\* The routes of the controller that call getAddressDefiData of ZerionService
\* once.
ZerionServiceEntries == {"nest", "nestSource", "nestSources"}

AttemptsBounded ==
  (request.entry \in ZerionServiceEntries /\ hpc \in {"nest", "done"}) =>
    /\ PositionsAttempts <= 3
    /\ Len(nest.answers) <= PositionsAttempts
    /\ (nest.fetch \in {"attempt", "sleep"} => PositionsAttempts = nest.retries + 1)
    /\ (/\ nest.fetch = "returned"
        /\ Len(nest.answers) = 3
        /\ \A k \in 1..3 : nest.answers[k] \in RetryStatuses)
         => /\ nest.raw = <<>>
            /\ nest.pc \in {"pending", "resolved"}
            /\ hpc = "done" => (response = SuccessResponse /\ nest.data.positions = <<>>)

\* C15: ZerionService.fetchPositions issues at most 3 HTTP attempts per call
\* and always ends; when each of 3 attempts is answered with 202 or 429 it
\* ends with an empty list and no error; every call counts its attempts from
\* zero, whatever the call before it did.
C15_ThreeAttemptsThenEmpty ==
  /\ []AttemptsBounded
  /\ (hpc = "nest") ~> (nest.fetch = "returned")

\* The second request to the controller has been answered after three
\* attempts answered 202, 429 and 429.
C15_Witness ==
  /\ request.number = 2
  /\ hpc = "done"
  /\ nest.answers = <<202, 429, 429>>
  /\ PositionsAttempts = 3
  /\ response = SuccessResponse

(***************************************************************************)
(* C16: 202 and 429 are retried after a backoff                            *)
(***************************************************************************)
BackoffOf(status) == IF status = 202 THEN 3000 ELSE 5000

\* In ZerionService.fetchPositions an answer 202 or 429 to the first or the
\* second attempt does not end the call: the call sleeps 3 s after 202 and
\* 5 s after 429, and then makes the next attempt.
ZerionServiceRetries ==
  (request.entry \in ZerionServiceEntries /\ nest.fetch # "idle") =>
    /\ \A k \in 1..Len(nest.answers) :
         (nest.answers[k] \in RetryStatuses /\ k < 3) =>
           /\ k < Len(nest.answers) \/ nest.fetch \in {"sleep", "attempt"}
           /\ k <= Len(nest.waits) => nest.waits[k] = BackoffOf(nest.answers[k])
           /\ k > Len(nest.waits) =>
                (nest.fetch = "sleep" /\ nest.ms = BackoffOf(nest.answers[k]))
    /\ hpc \in {"nest", "done"} =>
         PositionsAttempts = (IF Len(nest.waits) < 3 THEN Len(nest.waits) + 1 ELSE 3)

\* The requests OneKey's getAddressDefiData has issued for a network.
\* The number of requests issued for a network to query, told by the
\* networkId of their bodies.
RequestsTo(networkId) ==
  Cardinality({k \in 1..Len(calls) :
                 /\ calls[k].provider = "onekey"
                 /\ calls[k].networkId = bodyNetworkId(networkId)})

RetryAnswered(k) ==
  /\ onekey.responses[k].kind = "response"
  /\ onekey.responses[k].status \in RetryStatuses

\* A per-network request of OneKey answered 202 or 429 has been attempted
\* again by the time getAddressDefiData returns.
OneKeyRetries ==
  onekey.pc = "resolved" =>
    \A k \in 1..Len(onekey.networks) :
      RetryAnswered(k) => RequestsTo(onekey.networks[k]) >= 2

\* C16: for ZerionService.fetchPositions and for the per-network
\* fetchNetworkPositions of OneKey, a 202 or 429 answer received while retry
\* budget remains does not end the call: a backoff wait (3 s after 202, 5 s
\* after 429) and another attempt of the same request follow.
C16_RetryOn202And429 == ZerionServiceRetries /\ OneKeyRetries

(***************************************************************************)
(* C17: /compare/sources fetches Zerion first and scopes OneKey by it      *)
(***************************************************************************)
OneKeyCalls == {k \in 1..Len(calls) : calls[k].provider = "onekey"}

\* C17: in the compare-sources handler no OneKey per-network request is
\* issued before the Zerion fetch has completed, the scope passed to OneKey
\* is the chains list of the completed Zerion dataset, and when the Zerion
\* fetch fails no OneKey request is issued and the caller gets a failure.
C17_OneKeyAfterZerion ==
  (request.entry = "compare" /\ hpc # "start") =>
    /\ OneKeyCalls # {} => zerion.pc = "resolved"
    /\ onekey.pc # "idle" =>
         /\ zerion.pc = "resolved"
         /\ onekey.scoped
         /\ onekey.scope = zerion.data.chains
    /\ zerion.pc = "rejected" =>
         /\ OneKeyCalls = {}
         /\ onekey.pc = "idle"
         /\ hpc = "done"
         /\ response = FailureResponse

\* OneKey has been queried for the two chains of a completed Zerion dataset.
C17_Witness ==
  /\ request.entry = "compare"
  /\ zerion.pc = "resolved"
  /\ Len(zerion.data.chains) = 2
  /\ onekey.scope = zerion.data.chains
  /\ OneKeyCalls # {}

(***************************************************************************)
(* C18: a missing credential fails the request before any network call     *)
(***************************************************************************)
\* The credential the entry point of the request needs is absent.  The
\* routes with the placeholder client of OneKey need none for it.
CredentialMissing ==
  CASE request.entry = "zerion" -> ~request.ZERION_API_KEY
    [] request.entry = "onekey" -> ~request.ONEKEY_AUTH_TOKEN
    [] request.entry = "compare" ->
         ~request.ZERION_API_KEY \/ ~request.ONEKEY_AUTH_TOKEN
    [] request.entry \in {"comparePlaceholder", "debugZerion"} ->
         ~request.ZERION_API_KEY
    [] request.entry = "debugOneKey" -> ~request.ONEKEY_AUTH_TOKEN
    [] request.entry \in {"nest", "nestSources", "nestRaw"} ->
         ~request.ZERION_API_KEY
    [] request.entry = "nestSource" ->
         /\ toLowerCase(request.param) = <<"z", "e", "r", "i", "o", "n">>
         /\ ~request.ZERION_API_KEY
    [] request.entry = "nestCompare" ->
         request.addressA /\ request.addressB /\ ~request.ZERION_API_KEY
    [] OTHER -> FALSE

\* C18: in every entry point, a request whose required credential
\* (ZERION_API_KEY, or ONEKEY_AUTH_TOKEN where OneKey is queried) is absent
\* ends with a failure reported to the caller and issues no provider
\* network call.
C18_MissingCredentialFailsFast ==
  (CredentialMissing /\ hpc # "start") =>
    /\ calls = <<>>
    /\ hpc = "done"
    /\ ~response.success

(***************************************************************************)
(* C19: the networks OneKey queries for a chain scope                      *)
(***************************************************************************)
\* The network ids getAddressDefiData has requested, in the order of issue.
OneKeyRequests ==
  LET issued == SelectSeq(calls, LAMBDA call : call.provider = "onekey")
  IN [k \in 1..Len(issued) |-> issued[k].networkId]

ChainOfNetwork(networkId) == Lookup(NETWORK_ID_TO_CHAIN, networkId)

ScopeGiven == onekey.scoped /\ Len(onekey.scope) > 0

RequestsForChain(chain) ==
  Cardinality({k \in 1..Len(OneKeyRequests) :
                 ChainOfNetwork(OneKeyRequests[k]) = chain})

\* C19: with an explicit, non-empty chain scope, getAddressDefiData of OneKey
\* issues exactly one request per chain in the scope and no request for a
\* network whose chain is not in the scope; the 16 primary networks are
\* queried only when no scope is given.
C19_OneRequestPerScopeChain ==
  (onekey.pc # "idle" /\ ScopeGiven) =>
    /\ \A chain \in Range(onekey.scope) : RequestsForChain(chain) = 1
    /\ \A k \in 1..Len(OneKeyRequests) :
         ChainOfNetwork(OneKeyRequests[k]) \in Range(onekey.scope)
    /\ OneKeyRequests # PRIMARY_NETWORKS

\* The chains of the scope under which CHAIN_TO_NETWORK_ID holds a value, in
\* the order of the scope.
MappedChains(scope) ==
  SelectSeq(scope, LAMBDA chain : HasKey(CHAIN_TO_NETWORK_ID, chain))

\* C19 (amended): with a scope of which at least one chain has a value in
\* CHAIN_TO_NETWORK_ID, getAddressDefiData of OneKey issues exactly one
\* request per such chain, in the order of the scope, and no other request;
\* chains of the scope without a value are skipped.  The request names the
\* network of the chain; for a chain under whose name the table holds an
\* inherited member instead of a network id, the request names no network
\* (its body holds what JSON.stringify makes of the member: nothing for a
\* function, {} for Object.prototype).
\* The 16 primary networks are queried when no scope is given, when the
\* scope is empty and when no chain of the scope has a value in the table.
C19_OneRequestPerMappedChain ==
  onekey.pc # "idle" =>
    IF ScopeGiven /\ MappedChains(onekey.scope) # <<>>
    THEN /\ Len(OneKeyRequests) = Len(MappedChains(onekey.scope))
         /\ \A k \in 1..Len(OneKeyRequests) :
              LET networkId == Lookup(CHAIN_TO_NETWORK_ID, MappedChains(onekey.scope)[k])
              IN IF IsString(networkId)
                 THEN /\ OneKeyRequests[k] = networkId
                      /\ ChainOfNetwork(networkId) = MappedChains(onekey.scope)[k]
                      /\ RequestsForChain(MappedChains(onekey.scope)[k]) = 1
                 ELSE OneKeyRequests[k] = bodyNetworkId(networkId)
    ELSE OneKeyRequests = PRIMARY_NETWORKS

\* A scope of a chain with a network id and one without: one request, to the
\* network of ethereum.
C19_Witness ==
  /\ onekey.scope = << ethereum, solana >>
  /\ OneKeyRequests = << evm1 >>

(***************************************************************************)
(* C21: the OneKey normalizer on malformed positions                       *)
(***************************************************************************)
\* The raw positions the networks have returned so far.
RawReturned ==
  flat([k \in 1..Len(onekey.responses) |->
          fetchNetworkPositions(onekey.responses[k]).positions])

\* C21: transformPosition never fails: for every raw position, one without
\* category, chain, networkId, assets, rewards or debts included, it returns a
\* Position whose type is in the PositionType enumeration, other for a
\* missing or unrecognized category, and getAddressDefiData does not reject
\* because of a malformed position.
C21_NormalizerNeverFails ==
  /\ \A k \in 1..Len(RawReturned) :
       /\ ~transformPositionThrows(RawReturned[k])
       /\ transformPosition(RawReturned[k], k - 1).type \in PositionTypes
       /\ (\/ ~Truthy(RawReturned[k].category)
           \/ ~HasOwn(categoryMap, toLowerCase(RawReturned[k].category)))
            => transformPosition(RawReturned[k], k - 1).type = other
  /\ onekey.pc # "rejected"

(***************************************************************************)
(* C22: position identifiers within one OneKey dataset                     *)
(***************************************************************************)
\* C22: within one dataset produced by getAddressDefiData of OneKey, the
\* position identifiers are pairwise distinct, whatever the networks returned
\* and whichever positions carry a groupId.
C22_IdsPairwiseDistinct ==
  onekey.pc = "resolved" =>
    \A i, j \in 1..Len(onekey.data.positions) :
      i # j => onekey.data.positions[i].id # onekey.data.positions[j].id

(***************************************************************************)
(* C23: the shape of added and removed entries                             *)
(***************************************************************************)
IsAbsent(position) == "absent" \in DOMAIN position

\* C23: in every PositionDiff returned by compareDataSources, positionA is
\* absent exactly when diffType is added and positionB is absent exactly when
\* diffType is removed; a removed entry has valueDiffUSD = -A.value and
\* valueDiffPercent = -100, an added entry has valueDiffUSD = B.value and
\* valueDiffPercent = 100.
C23_AddedRemovedShape ==
  pc \in {"tiered", "simple"} =>
    \A k \in 1..Len(diffs) :
      /\ IsAbsent(diffs[k].positionA) <=> diffs[k].diffType = "added"
      /\ IsAbsent(diffs[k].positionB) <=> diffs[k].diffType = "removed"
      /\ diffs[k].diffType = "removed" =>
           /\ diffs[k].valueDiffUSD = -diffs[k].positionA.totalValueUSD
           /\ PercentIs(diffs[k].valueDiffPercent, -100)
      /\ diffs[k].diffType = "added" =>
           /\ diffs[k].valueDiffUSD = diffs[k].positionB.totalValueUSD
           /\ PercentIs(diffs[k].valueDiffPercent, 100)

\* A comparison has returned a removed entry of value 100, an added entry of
\* value 0 and a matched pair.
C23_Witness ==
  /\ pc = "tiered"
  /\ PairedDiffs # {}
  /\ \E k \in 1..Len(diffs) :
       /\ diffs[k].diffType = "removed"
       /\ diffs[k].valueDiffUSD = -100
  /\ \E k \in 1..Len(diffs) :
       /\ diffs[k].diffType = "added"
       /\ diffs[k].valueDiffUSD = 0

(***************************************************************************)
(* C24: the percentage of a matched pair                                   *)
(***************************************************************************)
\* C24: for every pair matched by compareDataSources whose A value is not
\* zero, a negative A value (a net debt) included, valueDiffPercent is
\* (B.value - A.value) / A.value * 100; the fixed values 100 and 0 are used
\* only when the A value is exactly zero.
C24_PercentOfLeftValue ==
  pc \in {"tiered", "simple"} =>
    \A k \in PairedDiffs :
      LET valueA == diffs[k].positionA.totalValueUSD
          valueB == diffs[k].positionB.totalValueUSD
          percent == diffs[k].valueDiffPercent
      IN /\ valueA # 0 => percent[1] * valueA = (valueB - valueA) * 100 * percent[2]
         /\ valueA = 0 => (PercentIs(percent, 100) \/ PercentIs(percent, 0))

(***************************************************************************)
(* C25: the threshold of CompareService                                    *)
(***************************************************************************)
\* The entries of the returned list for the pair of merged positions ka of A
\* and kb of B.
ServiceEntries(ka, kb) ==
  {k \in 1..Len(diffs) : /\ diffs[k].idxA = mergedA[ka].first
                         /\ diffs[k].idxB = mergedB[kb].first}

\* C25: CompareService.compareDefiData follows the 1% threshold: a pair
\* present on both sides whose value differs by at most 1% of the A value is
\* classified unchanged and is in positionDiffs as an unchanged entry; only a
\* difference strictly above 1% gives a changed entry.
C25_ServiceThresholdOnePercent ==
  pc = "service" =>
    \A ka \in 1..Len(mergedA), kb \in 1..Len(mergedB) :
      LET valueA == mergedA[ka].position.totalValueUSD
          valueB == mergedB[kb].position.totalValueUSD
      IN (mergedA[ka].key = mergedB[kb].key /\ valueA > 0) =>
           /\ Cardinality(ServiceEntries(ka, kb)) = 1
           /\ \A k \in ServiceEntries(ka, kb) :
                diffs[k].diffType =
                  (IF Abs(valueB - valueA) * 100 > valueA THEN "changed"
                   ELSE "unchanged")

(***************************************************************************)
(* C26: the join over the per-network requests of OneKey                   *)
(***************************************************************************)
\* C26: getAddressDefiData of OneKey returns only after every per-network
\* request has completed, and its positions are the per-network results
\* concatenated in the order of the queried networks, whatever the order in
\* which the requests completed: positions, ids and totalValueUSD are
\* determined by the answers alone.
C26_JoinInNetworkOrder ==
  /\ onekey.pc \in {"resolved", "rejected"} => AllAnswered
  /\ onekey.pc = "waiting" => ~AllAnswered
  /\ onekey.pc = "resolved" =>
       /\ onekey.data.positions =
            [k \in 1..Len(RawReturned) |-> transformPosition(RawReturned[k], k - 1)]
       /\ onekey.data.totalValueUSD =
            SumValues([k \in 1..Len(RawReturned) |->
                         transformPosition(RawReturned[k], k - 1)])

\* Arbitrum was queried before Ethereum and answered after it; the position
\* of Arbitrum is the first of the dataset, the two of Ethereum follow.
C26_Witness ==
  /\ onekey.pc = "resolved"
  /\ onekey.networks = << evm42161, evm1 >>
  /\ onekey.completed = << evm1, evm42161 >>
  /\ Len(onekey.data.positions) = 3
  /\ onekey.data.positions[1].protocol.chain = arbitrum
  /\ onekey.data.positions[1].id =
       <<"a", "-", "a", "r", "b", "i", "t", "r", "u", "m", "-", "0">>
  /\ onekey.data.positions[3].protocol.chain = ethereum

(***************************************************************************)
(* C27: errors that end ZerionService.fetchPositions                       *)
(***************************************************************************)
\* What the answers record for a transport error (0) or for an error status
\* other than 429.
EndsCall(status) == status = 0 \/ (status >= 300 /\ status # 429)

\* C27: in ZerionService.fetchPositions an attempt that ends in a transport
\* error or in an error status other than 429 ends the call at once with an
\* empty list: it is the last attempt, no backoff follows it, and no
\* exception reaches the caller.
C27_OtherErrorsEndTheCall ==
  (request.entry \in ZerionServiceEntries /\ hpc \in {"nest", "done"}) =>
    \A k \in 1..Len(nest.answers) :
      EndsCall(nest.answers[k]) =>
        /\ k = Len(nest.answers)
        /\ PositionsAttempts = k
        /\ Len(nest.waits) = k - 1
        /\ nest.fetch = "returned"
        /\ nest.raw = <<>>
        /\ nest.pc \in {"pending", "resolved"}
        /\ hpc = "done" => (response = SuccessResponse /\ nest.data.positions = <<>>)

\* The second attempt, made after a 202 and its backoff, was answered 500
\* and the caller has its answer.
C27_Witness ==
  /\ request.entry = "nest"
  /\ hpc = "done"
  /\ nest.answers = <<202, 500>>
  /\ nest.waits = <<3000>>
  /\ nest.raw = <<>>
  /\ response = SuccessResponse

(***************************************************************************)
(* C28: letter case in the chain translations                              *)
(***************************************************************************)
SameUpToCase(s, t) == toLowerCase(s) = toLowerCase(t)

\* C28: both directions of the chain translation normalize case before the
\* lookup: two chain identifiers that differ only in letter case translate
\* to the same canonical chain (normalizeChainName) and to the same network
\* ids (getNetworkIdsFromChains), and two network ids that differ only in
\* case translate to the same canonical chain (transformPosition).
C28_CaseNormalizedBeforeLookup ==
  (translation.step \notin {"none", "input"}
     /\ SameUpToCase(translation.a, translation.b))
    => translation.ofA = translation.ofB

(***************************************************************************)
(* C29: values of the OneKey positions and of the dataset                  *)
(***************************************************************************)
\* The values of the first n assets of a list, a missing value counting 0.
RECURSIVE ValuesUpTo(_, _)
ValuesUpTo(assets, n) ==
  IF n = 0 THEN 0
  ELSE ValuesUpTo(assets, n - 1) + (IF assets[n].hasValue THEN assets[n].value ELSE 0)

RECURSIVE TotalUpTo(_, _)
TotalUpTo(positions, n) ==
  IF n = 0 THEN 0 ELSE TotalUpTo(positions, n - 1) + positions[n].totalValueUSD

\* C29: the totalValueUSD of every normalized OneKey position is the sum of
\* the values of its assets plus that of its rewards minus that of its debts,
\* a missing list or value counting 0, and the totalValueUSD of the dataset
\* getAddressDefiData returns is the sum of the totalValueUSD of its
\* positions, whichever networks failed.
C29_ValuesAddUp ==
  onekey.pc = "resolved" =>
    /\ Len(onekey.data.positions) = Len(RawReturned)
    /\ \A k \in 1..Len(RawReturned) :
         onekey.data.positions[k].totalValueUSD =
           ValuesUpTo(RawReturned[k].assets, Len(RawReturned[k].assets))
             + ValuesUpTo(RawReturned[k].rewards, Len(RawReturned[k].rewards))
             - ValuesUpTo(RawReturned[k].debts, Len(RawReturned[k].debts))
    /\ onekey.data.totalValueUSD =
         TotalUpTo(onekey.data.positions, Len(onekey.data.positions))

\* Arbitrum failed; Ethereum returned a position worth 150 + 2 - 50 and one
\* with an asset without value and a debt of 30: the dataset is worth 72.
C29_Witness ==
  /\ onekey.pc = "resolved"
  /\ \E k \in 1..Len(onekey.responses) : onekey.responses[k] = TransportError
  /\ Len(onekey.data.positions) = 2
  /\ onekey.data.positions[1].totalValueUSD = 102
  /\ onekey.data.positions[2].totalValueUSD = -30
  /\ onekey.data.totalValueUSD = 72

(***************************************************************************)
(* C30: what an exact key determines                                       *)
(***************************************************************************)
LowerSymbols(position) ==
  sortStrings([i \in 1..Len(position.tokens) |-> toLowerCase(position.tokens[i])])

\* p and q agree, letter case aside, on protocol id, chain, type and on the
\* multiset of their token symbols.
AgreeUpToCase(p, q) ==
  /\ SameUpToCase(p.protocol.id, q.protocol.id)
  /\ SameUpToCase(p.protocol.chain, q.protocol.chain)
  /\ SameUpToCase(p.type, q.type)
  /\ LowerSymbols(p) = LowerSymbols(q)

\* C30: two positions have the same exact key (getPositionMatchKey) only if
\* they agree, case-insensitively, on protocol id, chain, position type and
\* the multiset of token symbols, also when protocol ids, chain names or
\* symbols contain the separators '-' or '+'; so the tiered comparison pairs
\* by exact key only positions that agree in this way.
C30_ExactKeyInjective ==
  pc = "tiered" =>
    \A i \in 1..Len(positionsA), j \in 1..Len(positionsB) :
      getPositionMatchKey(positionsA[i]) = getPositionMatchKey(positionsB[j])
        => AgreeUpToCase(positionsA[i], positionsB[j])

=============================================================================
